---- MODULE Spec2Model ----
(***************************************************************************)
(* Model of the rust-peer orchestrator (rust-peer/src/peer.rs): the        *)
(* Peer::run event loop, the Kademlia query chain it tracks                *)
(* (bootstrap -> start providing -> get providers -> get closest peers),   *)
(* the gossipsub messages it routes and the intents it takes from the UI;  *)
(* the framing of the file exchange (rust-peer/src/protocol.rs) and the    *)
(* discovery record (rust-peer/src/generated/peer.rs); the Peer task and   *)
(* the UI task (rust-peer/src/ui/tui.rs) on their two bounded channels.    *)
(***************************************************************************)
EXTENDS Integers, Sequences, FiniteSets, TLC

\* ---------------------------------------------------------------- bounds
\* number of Bootstrap queries in one run (the startup one and periodic ones)
MaxBootstraps == 2
\* the UI may drop its receiver after 0..MaxCloseAfter sends of one handler
MaxCloseAfter == 1
\* longest provider list carried by one GetProviders result
MaxPeerList == 2
\* longest peer list carried by one GetClosestPeers result
MaxClosest == 1
\* most addresses carried by one closest peer
MaxAddrs == 1

\* intents waiting on the UI-to-Peer channel (its capacity is 64)
MaxPending == 2
\* messages waiting on the Peer-to-UI channel (its capacity is 64)
MaxQueued == 2

\* entries of the dial list given on the command line
MaxToDial == 1
\* listen addresses carried by one identify info
MaxListenAddrs == 2
\* bytes from the start of a frame, or short of its end, at which a
\* substream can break
MaxCut == 5
\* addresses carried by one published discovery record
MaxRecordAddrs == 5

\* peer identities appearing in query results
PeerIds == {"P1", "P2"}
\* the bytes of the chat lines typed in the UI ("h", "hi")
ChatInputs == {<<104>>, <<104, 105>>}
\* the data of chat and file-offer messages: "hi", e-acute, and a sequence
\* cut after its lead byte
GossipTexts == {<<104, 105>>, <<195, 169>>, <<195>>}
\* multiaddrs in binary form: /ip4/1.2.3.4, /tcp/80, and an unassigned code
Ip4Addr == <<4, 1, 2, 3, 4>>
TcpAddr == <<6, 0, 80>>
NoAddr == <<7, 1>>
\* /ip4/10.0.0.1
PrivateAddr == <<4, 10, 0, 0, 1>>
\* the text of a multiaddr and its binary form (str::parse::<Multiaddr>)
MultiaddrTexts == ("/ip4/1.2.3.4" :> Ip4Addr) @@ ("/ip4/10.0.0.1/tcp/80" :> PrivateAddr \o TcpAddr)

\* ------------------------------------------------------------- constants
\* Option::None for a QueryId field; QueryIds are 1, 2, ...
None == 0
\* budget of a handler during which the UI never drops its receiver
Unlimited == -1
\* Option::None for a peer
NoPeer == ""
\* the local peer id (Ui::me)
LocalPeer == "P0"
UNIVERSAL_CONNECTIVITY_AGENT == "universal-connectivity/0.1.0"
GOSSIPSUB_CHAT_TOPIC == "universal-connectivity"
GOSSIPSUB_CHAT_FILE_TOPIC == "universal-connectivity-file"
GOSSIPSUB_PEER_DISCOVERY == "universal-connectivity-browser-peer-discovery"

VARIABLES
    pc,                          \* position of Peer::run: "start", "loop",
                                 \* "send" (in a handler, at a to_ui.send),
                                 \* "done" (returned Ok), "failed" (returned
                                 \* Err), "panicked"
    kademlia,                    \* opt.kademlia: the Kademlia behaviour is enabled
    ui_open,                     \* the UI still holds the receiver of to_ui
                                 \* and the sender of from_ui
    from_ui,                     \* intents queued on the UI-to-Peer channel
    drained,                     \* this iteration's try_recv took an intent
    bootstrap_query_id,
    start_providing_query_id,
    get_providers_query_id,
    get_closest_peers_query_id,
    queries,                     \* the Kademlia behaviour's queries, by QueryId
    finished,                    \* QueryIds whose last progress step was produced
    ev,                          \* what the latest step handled
    sent,                        \* messages the latest step put on to_ui
    ops,                         \* Kademlia operations the latest step issued
    socket,                      \* file exchange: the bytes of a substream that
                                 \* are written and not yet read
    closed,                      \* the writing end of the substream is closed
    written,                     \* what was written to the substream, by which
                                 \* function, and how many bytes of it arrive
    result,                      \* what the read of the substream returned
    record,                      \* discovery: the Peer record a peer publishes
    payload,                     \* the bytes of the published message, and the
                                 \* unknown field among them
    decoded,                     \* what try_from made of the message
    to_ui,                       \* the two tasks: messages queued on the
                                 \* Peer-to-UI channel
    outgoing,                    \* messages the handler run() is in has yet
                                 \* to send
    typed,                       \* the intent the UI is sending, if any
    cancelled                    \* the shutdown token is cancelled

\* the variables of Peer::run
running == <<pc, kademlia, ui_open, from_ui, drained, bootstrap_query_id, start_providing_query_id,
             get_providers_query_id, get_closest_peers_query_id, queries, finished,
             ev, sent, ops>>

\* the variables of a substream of the file exchange
substream == <<socket, closed, written, result>>

\* the variables of a published discovery record
discovery == <<record, payload, decoded>>

\* the variables of the Peer task and the UI task on their channels
channels == <<to_ui, outgoing, typed, cancelled>>

vars == <<running, substream, discovery, channels>>

tracking == <<bootstrap_query_id, start_providing_query_id,
              get_providers_query_id, get_closest_peers_query_id>>

\* ------------------------------------------------------------ data shapes
\* Message::Event(String): the format string, a peer it names, a number it shows
Event(text, peer, arg) == [type |-> "Event", text |-> text, peer |-> peer, arg |-> arg]

\* Message::Event(String) of a text that shows an address
AddrEvent(text, addr) ==
    [type |-> "Event", text |-> text, peer |-> "", arg |-> 0, addr |-> addr]

\* the other variants of Message
Chat(from, data) == [type |-> "Chat", from |-> from, data |-> data]
AllPeers(peers) == [type |-> "AllPeers", peers |-> peers]
AddPeer(peer) == [type |-> "AddPeer", peer |-> peer]
RemovePeer(peer) == [type |-> "RemovePeer", peer |-> peer]

\* one call on the swarm or on a behaviour other than Kademlia, and whether
\* it returned Ok
SwarmOp(op, topic, peer, data, ok) ==
    [op |-> op, topic |-> topic, peer |-> peer, data |-> data, ok |-> ok]

\* one call on the Kademlia behaviour and the QueryId it returned (None: Err)
KadOp(op, key, peer, ret) == [op |-> op, key |-> key, peer |-> peer, ret |-> ret]

\* one query of the Kademlia behaviour
Query(kind, key, peer) == [kind |-> kind, key |-> key, peer |-> peer]

\* a step of the loop: a swarm event, or another branch of the select!
Ev(type, kind, id, ok, last, variant, key, providers, peers) ==
    [type |-> type, kind |-> kind, id |-> id, ok |-> ok, last |-> last,
     variant |-> variant, key |-> key, providers |-> providers, peers |-> peers]

NoEv(type) == Ev(type, "", None, FALSE, FALSE, "", "", <<>>, <<>>)

\* provider lists (GetProvidersOk) and closest-peer lists (GetClosestPeersOk)
ProviderLists ==
    {q \in UNION {[1..n -> PeerIds] : n \in 0..MaxPeerList} :
        \A i, j \in 1..Len(q) : i # j => q[i] # q[j]}
PeerInfos == [peer_id : PeerIds, addrs : {0, MaxAddrs}]
PeerInfoLists ==
    {q \in UNION {[1..n -> PeerInfos] : n \in 0..MaxClosest} :
        \A i, j \in 1..Len(q) : i # j => q[i].peer_id # q[j].peer_id}

\* ------------------------------------------- quick_protobuf::BytesReader
\* Byte strings are sequences of 0..255. A reader is its offset start into
\* bytes (0-based, as in the code); a read gives ok, the value and the new
\* offset, or ok = FALSE for an Err.
Failed == [ok |-> FALSE, val |-> 0, start |-> 0]
Read(val, start) == [ok |-> TRUE, val |-> val, start |-> start]

\* read_varint32 from its k-th byte on: seven bits a byte, the fifth byte
\* gives four bits, five more bytes are skipped, an eleventh is an error
RECURSIVE varint32_from(_, _, _, _)
varint32_from(bytes, start, k, acc) ==
    IF k = 10 \/ start >= Len(bytes) THEN Failed
    ELSE LET b == bytes[start + 1]
             v == acc + (IF k < 4 THEN (b % 128) * 128^k
                         ELSE IF k = 4 THEN (b % 16) * 2^28
                         ELSE 0)
         IN IF b < 128 THEN Read(v, start + 1)
            ELSE varint32_from(bytes, start + 1, k + 1, v)

read_varint32(bytes, start) == varint32_from(bytes, start, 0, 0)

\* read_varint64, the value left out: at most ten bytes
RECURSIVE varint64_from(_, _, _)
varint64_from(bytes, start, k) ==
    IF k = 10 \/ start >= Len(bytes) THEN Failed
    ELSE IF bytes[start + 1] < 128 THEN Read(0, start + 1)
    ELSE varint64_from(bytes, start + 1, k + 1)

read_varint64(bytes, start) == varint64_from(bytes, start, 0)

\* read_fixed32 and read_fixed64, the value left out
read_fixed(bytes, start, len) ==
    IF start + len > Len(bytes) THEN Failed ELSE Read(0, start + len)

\* read_bytes: a length varint, then that many bytes
read_bytes(bytes, start) ==
    LET l == read_varint32(bytes, start)
    IN IF ~l.ok \/ l.start + l.val > Len(bytes) THEN Failed
       ELSE Read(SubSeq(bytes, l.start + 1, l.start + l.val), l.start + l.val)

\* read_unknown: skip the value of a field by the wire type of its tag
read_unknown(bytes, start, tag_value) ==
    LET wire == tag_value % 8
        skip(offset, from) ==
            IF Len(bytes) - from < offset THEN Failed ELSE Read(0, from + offset)
    IN CASE wire = 0 -> read_varint64(bytes, start)
         [] wire = 1 -> skip(8, start)
         [] wire = 5 -> skip(4, start)
         [] wire = 2 -> LET l == read_varint32(bytes, start)
                        IN IF l.ok THEN skip(l.val, l.start) ELSE Failed
         [] OTHER -> Failed

\* quick_protobuf Writer::write_varint
RECURSIVE writer_write_varint(_)
writer_write_varint(n) ==
    IF n < 128 THEN <<n>> ELSE <<(n % 128) + 128>> \o writer_write_varint(n \div 128)

\* ------------------------------------------------ generated/peer.rs: Peer
DiscoveredPeer(publicKey, multiAddrs) ==
    [publicKey |-> publicKey, multiAddrs |-> multiAddrs]

\* MessageRead::from_reader
RECURSIVE from_reader(_, _, _)
from_reader(bytes, start, m) ==
    IF start = Len(bytes) THEN [ok |-> TRUE, val |-> m, start |-> start]
    ELSE LET t == read_varint32(bytes, start)
         IN IF ~t.ok THEN Failed
            ELSE IF t.val = 10
                 THEN LET b == read_bytes(bytes, t.start)
                      IN IF b.ok
                         THEN from_reader(bytes, b.start, [m EXCEPT !.publicKey = b.val])
                         ELSE Failed
            ELSE IF t.val = 18
                 THEN LET b == read_bytes(bytes, t.start)
                      IN IF b.ok
                         THEN from_reader(bytes, b.start,
                                          [m EXCEPT !.multiAddrs = Append(@, b.val)])
                         ELSE Failed
            ELSE LET u == read_unknown(bytes, t.start, t.val)
                 IN IF u.ok THEN from_reader(bytes, u.start, m) ELSE Failed

\* the addresses written last to first
RECURSIVE write_addrs_reversed(_)
write_addrs_reversed(addrs) ==
    IF addrs = <<>> THEN <<>>
    ELSE write_addrs_reversed(Tail(addrs))
            \o <<18>> \o writer_write_varint(Len(Head(addrs))) \o Head(addrs)

\* MessageWrite::write_message
RECURSIVE write_addrs(_)
write_addrs(addrs) ==
    IF addrs = <<>> THEN <<>>
    ELSE <<18>> \o writer_write_varint(Len(Head(addrs))) \o Head(addrs) \o write_addrs(Tail(addrs))

write_message(m) ==
    (IF m.publicKey # <<>>
     THEN <<10>> \o writer_write_varint(Len(m.publicKey)) \o m.publicKey
     ELSE <<>>) \o write_addrs(m.multiAddrs)

\* --------------------------------------------------- library conversions
\* String::from_utf8(bytes).is_ok(): the well-formed UTF-8 byte sequences
RECURSIVE valid_utf8(_)
valid_utf8(b) ==
    IF b = <<>> THEN TRUE
    ELSE LET c == b[1]
             n == Len(b)
             cont(i) == i <= n /\ b[i] \in 128..191
             second(lo, hi) == n >= 2 /\ b[2] \in lo..hi
             rest(k) == valid_utf8(SubSeq(b, k + 1, n))
         IN CASE c < 128 -> rest(1)
              [] c \in 194..223 -> cont(2) /\ rest(2)
              [] c = 224 -> second(160, 191) /\ cont(3) /\ rest(3)
              [] c \in (225..236) \cup (238..239) -> cont(2) /\ cont(3) /\ rest(3)
              [] c = 237 -> second(128, 159) /\ cont(3) /\ rest(3)
              [] c = 240 -> second(144, 191) /\ cont(3) /\ cont(4) /\ rest(4)
              [] c \in 241..243 -> cont(2) /\ cont(3) /\ cont(4) /\ rest(4)
              [] c = 244 -> second(128, 143) /\ cont(3) /\ cont(4) /\ rest(4)
              [] OTHER -> FALSE

\* the bytes of the literal "invalid UTF-8"
InvalidUtf8 == <<105, 110, 118, 97, 108, 105, 100, 32, 85, 84, 70, 45, 56>>

\* String::from_utf8(data).unwrap_or("invalid UTF-8".to_string())
from_utf8_or_invalid(data) == IF valid_utf8(data) THEN data ELSE InvalidUtf8

\* Multiaddr::try_from(bytes).is_ok(): a sequence of protocols, each a code
\* and its value; of the codes only ip4 (4, four bytes) and tcp (6, two
\* bytes) are modelled
RECURSIVE valid_multiaddr(_)
valid_multiaddr(b) ==
    IF b = <<>> THEN TRUE
    ELSE CASE b[1] = 4 -> Len(b) >= 5 /\ valid_multiaddr(SubSeq(b, 6, Len(b)))
           [] b[1] = 6 -> Len(b) >= 3 /\ valid_multiaddr(SubSeq(b, 4, Len(b)))
           [] OTHER -> FALSE

\* util::is_private_ip: the first ip4 component decides
RECURSIVE is_private_ip(_)
is_private_ip(b) ==
    IF b = <<>> THEN FALSE
    ELSE CASE b[1] = 4 ->
                \/ b[2] = 10
                \/ b[2] = 172 /\ b[3] \in 16..31
                \/ b[2] = 192 /\ b[3] = 168
                \/ b[2] = 127
                \/ b[2] = 169 /\ b[3] = 254
                \/ SubSeq(b, 2, 5) = <<0, 0, 0, 0>>
           [] b[1] = 6 -> is_private_ip(SubSeq(b, 4, Len(b)))
           [] OTHER -> FALSE

\* Key material is shortened to one byte, which names the peer of the key.
KeyMaterial == (1 :> "P1") @@ (2 :> "P2")

\* the protobuf encoding of a public key: Type = Ed25519 (field 1, value 1),
\* Data (field 2)
encode_protobuf(k) == <<8, 1, 18, 1, k>>

\* PublicKey::try_decode_protobuf(bytes), then PeerId::from(pubkey):
\* NoPeer when the bytes are no public key
peer_of_public_key(b) ==
    IF Len(b) = 5 /\ SubSeq(b, 1, 4) = <<8, 1, 18, 1>> /\ b[5] \in DOMAIN KeyMaterial
    THEN KeyMaterial[b[5]]
    ELSE NoPeer

\* ----------------------------------------------------------------- util.rs
\* decode_unknown_protobuf: the fields read until the tag cannot be read;
\* a field is its number and wire type
RECURSIVE decode_unknown_protobuf(_, _, _)
decode_unknown_protobuf(bytes, start, fields) ==
    LET t == read_varint32(bytes, start)
        wire == t.val % 8
        field(w) == [number |-> t.val \div 8, wire_type |-> w]
        next(r, w) ==
            IF r.ok THEN decode_unknown_protobuf(bytes, r.start, Append(fields, field(w)))
            ELSE Failed
    IN IF ~t.ok THEN [ok |-> TRUE, val |-> fields, start |-> start]
       ELSE CASE wire = 0 -> next(read_varint64(bytes, t.start), "Varint")
              [] wire = 1 -> next(read_fixed(bytes, t.start, 8), "Fixed64")
              [] wire = 2 -> LET len == read_varint32(bytes, t.start)
                             IN IF len.ok
                                THEN next(read_bytes(bytes, len.start), "LengthDelimited")
                                ELSE Failed
              [] wire = 5 -> next(read_fixed(bytes, t.start, 4), "Fixed32")
              [] OTHER -> Failed

\* ------------------------------------------------------------ protocol.rs
\* A byte string of the file exchange is written as its runs: a sequence of
\* [b, n], n > 0 times the byte b, no two neighbours with the same byte, so
\* that equal strings have equal forms and a body of 500,000,000 bytes has
\* a form of one run.
Run(b, n) == [b |-> b, n |-> n]

\* data.len()
RECURSIVE bytes_len(_)
bytes_len(v) == IF v = <<>> THEN 0 ELSE Head(v).n + bytes_len(Tail(v))

\* the bytes of v followed by the bytes of w
bytes_cat(v, w) ==
    IF v = <<>> THEN w
    ELSE IF w = <<>> THEN v
    ELSE IF v[Len(v)].b = w[1].b
    THEN SubSeq(v, 1, Len(v) - 1) \o <<Run(w[1].b, v[Len(v)].n + w[1].n)>> \o Tail(w)
    ELSE v \o w

\* the byte string of a sequence of bytes
RECURSIVE bytes_of(_)
bytes_of(q) ==
    IF q = <<>> THEN <<>> ELSE bytes_cat(<<Run(Head(q), 1)>>, bytes_of(Tail(q)))

\* the first k bytes of v, and the bytes after them
RECURSIVE bytes_take(_, _)
bytes_take(v, k) ==
    IF k = 0 \/ v = <<>> THEN <<>>
    ELSE IF Head(v).n >= k THEN <<Run(Head(v).b, k)>>
    ELSE <<Head(v)>> \o bytes_take(Tail(v), k - Head(v).n)

RECURSIVE bytes_drop(_, _)
bytes_drop(v, k) ==
    IF k = 0 \/ v = <<>> THEN v
    ELSE IF Head(v).n > k THEN <<Run(Head(v).b, Head(v).n - k)>> \o Tail(v)
    ELSE bytes_drop(Tail(v), k - Head(v).n)

\* the bytes of v with its long runs shortened, for String::from_utf8: a
\* run of an ASCII byte is as valid as one such byte, and a run of five or
\* more of another byte as invalid as a run of four
RECURSIVE squeezed(_)
squeezed(v) ==
    IF v = <<>> THEN <<>>
    ELSE LET n == IF Head(v).b < 128 THEN 1 ELSE IF Head(v).n > 4 THEN 4 ELSE Head(v).n
         IN [i \in 1..n |-> Head(v).b] \o squeezed(Tail(v))

\* the two size limits of the codec
max_request_size == 1000000
max_response_size == 500000000

\* unsigned_varint::encode::usize(len, &mut len_data)
RECURSIVE encode_usize(_)
encode_usize(len) ==
    IF len < 128 THEN <<len>> ELSE <<(len % 128) + 128>> \o encode_usize(len \div 128)

\* the number a varint's bytes stand for, the last byte being the one
\* without the continuation bit
RECURSIVE varint_value(_)
varint_value(buf) ==
    IF Len(buf) = 1 THEN buf[1] ELSE (buf[1] % 128) + 128 * varint_value(Tail(buf))

\* unsigned_varint::decode::usize(&buffer[..buffer_len]), usize of 64 bits,
\* for numbers below 2^31, from byte i (0 at first) on, the bytes before
\* it having been found to continue
RECURSIVE decode_usize(_, _)
decode_usize(buf, i) ==
    IF i >= Len(buf) THEN [err |-> "Insufficient", val |-> 0]
    ELSE IF buf[i + 1] < 128
    THEN IF buf[i + 1] = 0 /\ i > 0 THEN [err |-> "NotMinimal", val |-> 0]
         ELSE [err |-> "Ok", val |-> varint_value(SubSeq(buf, 1, i + 1))]
    ELSE IF i = 9 THEN [err |-> "Overflow", val |-> 0]
    ELSE decode_usize(buf, i + 1)

\* io::Result of a read: Ok(val), or Err of an io::ErrorKind, or a panic;
\* "Pending" while the future waits for bytes of an open substream. rest
\* is what the read left in the socket.
IoOk(val, rest) == [kind |-> "Ok", why |-> "", val |-> val, rest |-> rest]
IoErr(kind, why, rest) == [kind |-> kind, why |-> why, val |-> <<>>, rest |-> rest]

\* nothing written to the substream yet, nothing read from it yet
NoWrite == [op |-> "none", data |-> <<>>, arrived |-> 0]
NoRead == [op |-> "none", kind |-> "", why |-> "", val |-> <<>>]

\* write_varint(socket, len)
write_varint(sock, len) == bytes_cat(sock, bytes_of(encode_usize(len)))

\* write_length_prefixed(socket, data)
write_length_prefixed(sock, data) ==
    bytes_cat(write_varint(sock, bytes_len(data)), data)

\* FileExchangeCodec::write_request and write_response
write_request(sock, file_id) == write_length_prefixed(sock, file_id)
write_response(sock, file_body) == write_length_prefixed(sock, file_body)

\* read_varint(socket), from an iteration of its loop on: buffer holds the
\* bytes read so far, none at first
RECURSIVE read_varint(_, _, _)
read_varint(sock, eof, buffer) ==
    IF Len(buffer) = 10 THEN IoErr("panic", "buffer[10..11]", sock)
    ELSE IF sock = <<>>
    THEN IF ~eof THEN IoErr("Pending", "", sock)
         ELSE IF buffer = <<>> THEN IoOk(0, sock)
         ELSE IoErr("UnexpectedEof", "", sock)
    ELSE LET buffer2 == Append(buffer, Head(sock).b)
             rest == bytes_drop(sock, 1)
             len == decode_usize(buffer2, 0)
         IN CASE len.err = "Ok" -> IoOk(len.val, rest)
              [] len.err = "Overflow" ->
                   IoErr("InvalidData", "overflow in variable-length integer", rest)
              [] OTHER -> read_varint(rest, eof, buffer2)

\* read_length_prefixed with the size compared by >=
read_length_prefixed_below(sock, eof, max_size) ==
    LET len == read_varint(sock, eof, <<>>)
    IN IF len.kind # "Ok" THEN len
       ELSE IF len.val >= max_size
       THEN IoErr("InvalidData", "Received data size exceeds maximum", len.rest)
       ELSE IF bytes_len(len.rest) < len.val
       THEN IoErr(IF eof THEN "UnexpectedEof" ELSE "Pending", "", <<>>)
       ELSE IoOk(bytes_take(len.rest, len.val), bytes_drop(len.rest, len.val))

\* read_length_prefixed that returns what arrived when the substream ends
\* within the payload
read_length_prefixed_short(sock, eof, max_size) ==
    LET len == read_varint(sock, eof, <<>>)
    IN IF len.kind # "Ok" THEN len
       ELSE IF len.val > max_size
       THEN IoErr("InvalidData", "Received data size exceeds maximum", len.rest)
       ELSE IF bytes_len(len.rest) < len.val
       THEN IF eof THEN IoOk(len.rest, <<>>) ELSE IoErr("Pending", "", <<>>)
       ELSE IoOk(bytes_take(len.rest, len.val), bytes_drop(len.rest, len.val))

\* read_length_prefixed(socket, max_size); read_exact takes what there is
\* when it fails
read_length_prefixed(sock, eof, max_size) ==
    LET len == read_varint(sock, eof, <<>>)
    IN IF len.kind # "Ok" THEN len
       ELSE IF len.val > max_size
       THEN IoErr("InvalidData", "Received data size exceeds maximum", len.rest)
       ELSE IF bytes_len(len.rest) < len.val
       THEN IoErr(IF eof THEN "UnexpectedEof" ELSE "Pending", "", <<>>)
       ELSE IoOk(bytes_take(len.rest, len.val), bytes_drop(len.rest, len.val))

\* FileExchangeCodec::read_request
read_request(sock, eof) ==
    LET vec == read_length_prefixed(sock, eof, max_request_size)
    IN IF vec.kind # "Ok" THEN vec
       ELSE IF vec.val = <<>> THEN IoErr("UnexpectedEof", "", vec.rest)
       ELSE IF ~valid_utf8(squeezed(vec.val)) THEN IoErr("panic", "from_utf8(vec).unwrap()", vec.rest)
       ELSE vec

\* FileExchangeCodec::read_response
read_response(sock, eof) ==
    LET vec == read_length_prefixed(sock, eof, max_response_size)
    IN IF vec.kind # "Ok" THEN vec
       ELSE IF vec.val = <<>> THEN IoErr("UnexpectedEof", "", vec.rest)
       ELSE vec

\* ------------------------------------------------ the orchestrator's state
\* The handlers below are functions on this record: the Peer fields they
\* touch, the behaviour's queries, and the outputs of the handler so far.
\* status is "ok" until a `?` returns the error of a failed send ("err") or
\* of a failed conversion ("invalid"), or a panic unwinds ("panic"); budget
\* is the number of sends that still succeed before the UI drops its receiver.
PeerState(budget) ==
    [bootstrap_query_id |-> bootstrap_query_id,
     start_providing_query_id |-> start_providing_query_id,
     get_providers_query_id |-> get_providers_query_id,
     get_closest_peers_query_id |-> get_closest_peers_query_id,
     kademlia |-> kademlia, queries |-> queries,
     sent |-> <<>>, ops |-> <<>>, ret |-> None,
     status |-> "ok", budget |-> budget]

Running(s) == s.status = "ok"

\* a send whose error is dropped instead of returned
Send_unchecked(s, m) ==
    IF ~Running(s) THEN s
    ELSE IF s.budget = 0 THEN s
    ELSE [s EXCEPT !.sent = Append(@, m),
                   !.budget = IF @ = Unlimited THEN @ ELSE @ - 1]

\* self.to_ui.send(m).await? : fails once the receiver is dropped
Send(s, m) ==
    IF ~Running(s) THEN s
    ELSE IF s.budget = 0 THEN [s EXCEPT !.status = "err"]
    ELSE [s EXCEPT !.sent = Append(@, m),
                   !.budget = IF @ = Unlimited THEN @ ELSE @ - 1]

\* Peer::msg
msg(s, text, peer, arg) == Send(s, Event(text, peer, arg))

\* kad.bootstrap(): Err(NoKnownPeers) or a new query
kad_bootstrap(s, accepted) ==
    IF accepted
    THEN [s EXCEPT !.queries = Append(@, Query("Bootstrap", "", "")),
                   !.ops = Append(@, KadOp("bootstrap", "", "", Len(s.queries) + 1)),
                   !.ret = Len(s.queries) + 1]
    ELSE [s EXCEPT !.ops = Append(@, KadOp("bootstrap", "", "", None)),
                   !.ret = None]

\* kad.start_providing(key): Err(store error) or a new query
kad_start_providing(s, key, accepted) ==
    IF accepted
    THEN [s EXCEPT !.queries = Append(@, Query("StartProviding", key, "")),
                   !.ops = Append(@, KadOp("start_providing", key, "", Len(s.queries) + 1)),
                   !.ret = Len(s.queries) + 1]
    ELSE [s EXCEPT !.ops = Append(@, KadOp("start_providing", key, "", None)),
                   !.ret = None]

\* kad.get_providers(key): always a new query
kad_get_providers(s, key) ==
    [s EXCEPT !.queries = Append(@, Query("GetProviders", key, "")),
              !.ops = Append(@, KadOp("get_providers", key, "", Len(s.queries) + 1)),
              !.ret = Len(s.queries) + 1]

\* kad.get_closest_peers(peer): always a new query
kad_get_closest_peers(s, peer) ==
    [s EXCEPT !.queries = Append(@, Query("GetClosestPeers", "", peer)),
              !.ops = Append(@, KadOp("get_closest_peers", "", peer, Len(s.queries) + 1)),
              !.ret = Len(s.queries) + 1]

\* ---------------------------------------------------------------- startup
\* self.swarm.listen_on(addr) for each listen address; Err for those in failing
RECURSIVE listen(_, _, _)
listen(s, addrs, failing) ==
    IF addrs = <<>> \/ ~Running(s) THEN s
    ELSE LET a == Head(addrs)
             l == [s EXCEPT !.ops = Append(@, SwarmOp("listen_on", "", "", a, a \notin failing))]
         IN listen(IF a \in failing
                   THEN Send(l, AddrEvent("Failed to listen on {addr}: {e}", a))
                   ELSE l,
                   Tail(addrs), failing)

\* update_external_address for each address passed in
RECURSIVE external(_, _)
external(s, addrs) ==
    IF addrs = <<>> \/ ~Running(s) THEN s
    ELSE LET a == Head(addrs)
             m == Send(s, AddrEvent("Adding external address: {address}", a))
         IN external(IF is_private_ip(a) THEN s
                     ELSE IF Running(m)
                     THEN [m EXCEPT !.ops =
                             Append(@, SwarmOp("add_external_address", "", "", a, TRUE))]
                     ELSE m,
                     Tail(addrs))

\* Dial the given addresses: a Multiaddr, a PeerId, or neither; ok[i] is the
\* result of the dial of the i-th entry. (No address given here names a
\* peer, so none is added to the routing table.)
RECURSIVE dial_given(_, _, _)
dial_given(s, to_dial, ok) ==
    IF to_dial = <<>> \/ ~Running(s) THEN s
    ELSE LET t == Head(to_dial)
             dialed(peer, addr) ==
                 [s EXCEPT !.ops = Append(@, SwarmOp("dial", "", peer, addr, Head(ok)))]
             said(d, addr) ==
                 IF Head(ok) THEN Send(d, AddrEvent("Dialed {addr}", addr))
                 ELSE Send(d, AddrEvent("Failed to dial {addr}: {e}", addr))
         IN dial_given(
              IF t \in DOMAIN MultiaddrTexts
              THEN said(dialed("", MultiaddrTexts[t]), MultiaddrTexts[t])
              ELSE IF t \in PeerIds
              THEN LET d == dialed(t, <<>>)
                   IN IF Head(ok)
                      THEN Send(d, Event("Dialed {addr}", t, 0))
                      ELSE Send(d, Event("Failed to dial {addr}: {e}", t, 0))
              ELSE Send(s, Event("Failed to parse {addr}", "", 0)),
              Tail(to_dial), Tail(ok))

\* ------------------------------------------------- messages from the UI
\* gossipsub.publish(topic, data): Ok(MessageId) or Err(PublishError)
gossipsub_publish(s, topic, data, ok) ==
    [s EXCEPT !.ops = Append(@, SwarmOp("publish", topic, NoPeer, data, ok))]

\* the handler with the publish error returned by `?`
on_ui_message_publish_fatal(s, m, publish_ok, peers) ==
    CASE m.type = "Chat" ->
           LET p == gossipsub_publish(s, GOSSIPSUB_CHAT_TOPIC, m.data, publish_ok)
           IN IF publish_ok
              THEN msg(p, "Sent chat message from you", NoPeer, 0)
              ELSE [p EXCEPT !.status = "invalid"]
      [] m.type = "AllPeers" -> Send(s, AllPeers(peers))
      [] OTHER -> s

\* the handler with the AllPeers reply left out
on_ui_message_no_reply(s, m, publish_ok, peers) ==
    CASE m.type = "Chat" ->
           LET p == gossipsub_publish(s, GOSSIPSUB_CHAT_TOPIC, m.data, publish_ok)
           IN IF publish_ok
              THEN msg(p, "Sent chat message from you", NoPeer, 0)
              ELSE p
      [] OTHER -> s

\* the handler with every intent but AllPeers published as a chat message
on_ui_message_any_kind(s, m, publish_ok, peers) ==
    CASE m.type = "AllPeers" -> Send(s, AllPeers(peers))
      [] OTHER ->
           LET p == gossipsub_publish(s, GOSSIPSUB_CHAT_TOPIC,
                                      IF m.type = "Chat" THEN m.data ELSE <<>>, publish_ok)
           IN IF publish_ok
              THEN msg(p, "Sent chat message from you", NoPeer, 0)
              ELSE p

\* if let Ok(message) = self.from_ui.try_recv() { match message { ... } }
on_ui_message(s, m, publish_ok, peers) ==
    CASE m.type = "Chat" ->
           LET p == gossipsub_publish(s, GOSSIPSUB_CHAT_TOPIC, m.data, publish_ok)
           IN IF publish_ok
              THEN msg(p, "Sent chat message from you", NoPeer, 0)
              ELSE p
      [] m.type = "AllPeers" -> Send(s, AllPeers(peers))
      [] OTHER -> s

\* ---------------------------------------------- self.shutdown.cancelled()
\* the branch with the loop over the topics left at the first failure
RECURSIVE on_shutdown_until_failure(_, _, _)
on_shutdown_until_failure(s, topics, subscribed) ==
    IF topics = <<>> THEN s
    ELSE LET ok == Head(topics) \in subscribed
             u == [s EXCEPT !.ops = Append(@, SwarmOp("unsubscribe", Head(topics),
                                                      NoPeer, <<>>, ok))]
         IN IF ok THEN on_shutdown_until_failure(u, Tail(topics), subscribed) ELSE u

\* for topic in &[chat_topic, file_topic, peer_discovery]: gossipsub.unsubscribe(topic),
\* false for a topic the Peer is not subscribed to
RECURSIVE on_shutdown(_, _, _)
on_shutdown(s, topics, subscribed) ==
    IF topics = <<>> THEN s
    ELSE on_shutdown([s EXCEPT !.ops = Append(@, SwarmOp("unsubscribe", Head(topics), NoPeer,
                                                       <<>>, Head(topics) \in subscribed))],
                     Tail(topics), subscribed)

\* ------------------------------------------------ GossipsubEvent::Message
\* a gossipsub message: its topic, its source (NoPeer: none) and its data;
\* propagation_source and sequence_number are only printed and left out
GossipsubMessage(topic, source, data) ==
    [topic |-> topic, source |-> source, data |-> data] @@ NoEv("Gossipsub")

\* enum UniversalConnectivityMessage
UniversalConnectivityMessage(variant, from, data, discovered_peer, discovered_addrs, topic) ==
    [variant |-> variant, from |-> from, data |-> data,
     discovered_peer |-> discovered_peer, discovered_addrs |-> discovered_addrs,
     topic |-> topic]

\* the addresses up to the first one that is no Multiaddr
RECURSIVE valid_addrs_until_invalid(_)
valid_addrs_until_invalid(addrs) ==
    IF addrs = <<>> \/ ~valid_multiaddr(Head(addrs)) THEN <<>>
    ELSE <<Head(addrs)>> \o valid_addrs_until_invalid(Tail(addrs))

\* only accept valid Multiaddrs
RECURSIVE valid_addrs(_)
valid_addrs(addrs) ==
    IF addrs = <<>> THEN <<>>
    ELSE (IF valid_multiaddr(Head(addrs)) THEN <<Head(addrs)>> ELSE <<>>)
            \o valid_addrs(Tail(addrs))

\* impl TryFrom<GossipsubEvent> for UniversalConnectivityMessage
try_from(e) ==
    CASE e.topic = GOSSIPSUB_CHAT_TOPIC ->
           [ok |-> TRUE,
            val |-> UniversalConnectivityMessage("Chat", e.source, e.data, NoPeer, <<>>, e.topic)]
      [] e.topic = GOSSIPSUB_CHAT_FILE_TOPIC ->
           [ok |-> TRUE,
            val |-> UniversalConnectivityMessage("File", e.source, e.data, NoPeer, <<>>, e.topic)]
      [] e.topic = GOSSIPSUB_PEER_DISCOVERY ->
           LET peer == from_reader(e.data, 0, DiscoveredPeer(<<>>, <<>>))
           IN IF peer.ok
              THEN [ok |-> TRUE,
                    val |-> UniversalConnectivityMessage(
                              "PeerDiscovery", e.source, <<>>,
                              peer_of_public_key(peer.val.publicKey),
                              valid_addrs(peer.val.multiAddrs), e.topic)]
              ELSE [ok |-> FALSE, val |-> <<>>]
      [] OTHER ->
           [ok |-> TRUE,
            val |-> UniversalConnectivityMessage("Unknown", e.source, e.data, NoPeer, <<>>, e.topic)]

\* the Event text of a received message: what the format string prints
Received(text, from, topic, body) ==
    [type |-> "Event", text |-> text, peer |-> from, arg |-> 0,
     topic |-> topic, body |-> body]

\* impl fmt::Display for UniversalConnectivityMessage: Err(fmt::Error) when
\* the data of an Unknown message cannot be decoded
Display(m) ==
    CASE m.variant = "Chat" ->
           [ok |-> TRUE,
            val |-> Received("Received chat message", m.from, m.topic,
                             from_utf8_or_invalid(m.data))]
      [] m.variant = "File" ->
           [ok |-> TRUE,
            val |-> Received("Received file offer", m.from, m.topic,
                             from_utf8_or_invalid(m.data))]
      [] m.variant = "PeerDiscovery" ->
           [ok |-> TRUE,
            val |-> Received("Received peer discovery", m.from, m.topic,
                             [peer |-> m.discovered_peer,
                              multiaddrs |-> Len(m.discovered_addrs)])]
      [] OTHER ->
           LET fields == decode_unknown_protobuf(m.data, 0, <<>>)
           IN IF fields.ok
              THEN [ok |-> TRUE,
                    val |-> Received("Received unknown message", m.from, m.topic,
                                     fields.val)]
              ELSE [ok |-> FALSE, val |-> <<>>]

\* self.swarm.dial(addr): Err for the addresses in failing
swarm_dial(s, addr, failing) ==
    [s EXCEPT !.ops = Append(@, SwarmOp("dial", "", NoPeer, addr, addr \notin failing))]

\* the dials of a discovery record given up at the first one that fails
RECURSIVE dial_discovered_until_failure(_, _, _)
dial_discovered_until_failure(s, addrs, failing) ==
    IF addrs = <<>> THEN s
    ELSE IF Head(addrs) \in failing THEN swarm_dial(s, Head(addrs), failing)
    ELSE dial_discovered_until_failure(swarm_dial(s, Head(addrs), failing),
                                       Tail(addrs), failing)

\* for addr in &discovered_addrs: dial, and write the address or the error
\* into the text
RECURSIVE dial_discovered(_, _, _)
dial_discovered(s, addrs, failing) ==
    IF addrs = <<>> THEN s
    ELSE dial_discovered(swarm_dial(s, Head(addrs), failing), Tail(addrs), failing)

DialLines(addrs, failing) ==
    [i \in 1..Len(addrs) |->
        IF addrs[i] \in failing THEN [error |-> TRUE, addr |-> <<>>]
        ELSE [error |-> FALSE, addr |-> addrs[i]]]

\* request_response.send_request(&peer, FileRequest { file_id })
send_request(s, peer, file_id) ==
    [s EXCEPT !.ops = Append(@, SwarmOp("send_request", "", peer, file_id, TRUE))]

\* a Chat message passed on with the AddPeer ahead of it, source or not
on_chat_add_peer_first(s, u) ==
    Send(Send(s, AddPeer(u.from)), Chat(u.from, u.data))

\* UniversalConnectivityMessage::Chat { from, data, .. } => { ... }
on_chat(s, u) ==
    LET s2 == Send(s, Chat(u.from, u.data))
    IN IF u.from # NoPeer THEN Send(s2, AddPeer(u.from)) ELSE s2

\* a file offer answered with a request whether it has a source or not
on_file_any_source(s, u) ==
    IF ~valid_utf8(u.data) THEN [s EXCEPT !.status = "invalid"]
    ELSE Send(send_request(s, u.from, u.data),
              Received("Sent file request to {peer} for {file_id}",
                       u.from, u.topic, u.data))

\* UniversalConnectivityMessage::File { from, data, .. } => { ... }
on_file(s, u) ==
    IF ~valid_utf8(u.data) THEN [s EXCEPT !.status = "invalid"]
    ELSE IF u.from # NoPeer
    THEN Send(send_request(s, u.from, u.data),
              Received("Sent file request to {peer} for {file_id}",
                       u.from, u.topic, u.data))
    ELSE s

\* UniversalConnectivityMessage::PeerDiscovery { .. } => { ... }
on_peer_discovery(s, u, failing) ==
    LET s2 == dial_discovered(s, u.discovered_addrs, failing)
        s3 == Send(s2, Received("Dialing: {peer}", u.discovered_peer, u.topic,
                                DialLines(u.discovered_addrs, failing)))
    IN IF u.discovered_peer # NoPeer
       THEN Send(s3, AddPeer(u.discovered_peer))
       ELSE s3

\* GossipsubEvent::Message { .. } => { ... }
on_gossipsub_message(s, e, failing) ==
    LET m == try_from(e)
    IN IF ~m.ok THEN [s EXCEPT !.status = "invalid"]
       ELSE LET text == Display(m.val)
            IN IF ~text.ok THEN [s EXCEPT !.status = "panic"]
               ELSE LET s1 == Send(s, text.val)
                    IN IF ~Running(s1) THEN s1
                       ELSE CASE m.val.variant = "Chat" -> on_chat(s1, m.val)
                              [] m.val.variant = "File" -> on_file(s1, m.val)
                              [] m.val.variant = "PeerDiscovery" ->
                                   on_peer_discovery(s1, m.val, failing)
                              [] OTHER -> s1

\* ------------------------------- GossipsubEvent::Subscribed, Unsubscribed
\* on_subscribed with the topic not looked at
on_subscribed_any_topic(s, peer_id, topic) == Send(s, AddPeer(peer_id))

\* GossipsubEvent::Subscribed { peer_id, topic }
on_subscribed(s, peer_id, topic) ==
    IF topic = GOSSIPSUB_CHAT_TOPIC THEN Send(s, AddPeer(peer_id)) ELSE s

\* GossipsubEvent::Unsubscribed { peer_id, topic }
on_unsubscribed(s, peer_id, topic) ==
    IF topic = GOSSIPSUB_CHAT_TOPIC THEN Send(s, RemovePeer(peer_id)) ELSE s

\* ------------------------------------------------- connection lifecycle
\* SwarmEvent::ConnectionEstablished { peer_id, .. } => { debug!(..) }
on_connection_established(s, peer_id) == s

\* kad.remove_peer(&peer_id)
kad_remove_peer(s, peer_id) ==
    [s EXCEPT !.ops = Append(@, KadOp("remove_peer", "", peer_id, None))]

\* a closed connection handled with the eviction made without looking
\* whether there is a DHT
on_connection_closed_always_evicts(s, peer_id) ==
    LET s1 == Send(s, RemovePeer(peer_id))
    IN IF Running(s1) THEN kad_remove_peer(s1, peer_id) ELSE s1

\* SwarmEvent::ConnectionClosed { peer_id, cause, .. } => { ... }
on_connection_closed(s, peer_id) ==
    LET s1 == Send(s, RemovePeer(peer_id))
    IN IF Running(s1) /\ s1.kademlia THEN kad_remove_peer(s1, peer_id) ELSE s1

\* ------------------------------------------------ IdentifyEvent::Received
\* for addr in info.listen_addrs.iter(): dial the addresses that are not
\* private, and report the dials that fail
RECURSIVE dial_listen_addrs(_, _, _)
dial_listen_addrs(s, addrs, failing) ==
    IF addrs = <<>> \/ ~Running(s) THEN s
    ELSE LET a == Head(addrs)
             d == swarm_dial(s, a, failing)
         IN dial_listen_addrs(
              IF is_private_ip(a) THEN s
              ELSE IF a \in failing
              THEN Send(d, AddrEvent("Failed to dial {addr}: {e}", a))
              ELSE d,
              Tail(addrs), failing)

\* IdentifyEvent::Received { info, .. } => { ... }
on_identify_received(s, info, failing) ==
    IF info.agent_version = UNIVERSAL_CONNECTIVITY_AGENT
    THEN dial_listen_addrs(msg(s, "Identify {peer_id}: agent, protocols", info.peer, 0),
                           info.listen_addrs, failing)
    ELSE s

\* ------------------------------------------- KademliaEvent::OutboundQueryProgressed
\* on_bootstrap with the advertise stage started twice
on_bootstrap_twice(s, e, accepted) ==
    IF s.bootstrap_query_id # None /\ e.id = s.bootstrap_query_id
    THEN IF e.ok
         THEN IF e.last
              THEN LET s1 == [s EXCEPT !.bootstrap_query_id = None]
                       s2 == msg(s1, "Kademlia bootstrapped", "", 0)
                       s3 == IF Running(s2) /\ s2.kademlia
                             THEN kad_start_providing(
                                    kad_start_providing(s2, UNIVERSAL_CONNECTIVITY_AGENT, accepted),
                                    UNIVERSAL_CONNECTIVITY_AGENT, accepted)
                             ELSE s2
                   IN IF Running(s2) /\ s2.kademlia /\ s3.ret # None
                      THEN msg([s3 EXCEPT !.start_providing_query_id = s3.ret],
                               "Kademlia providing: {key}", "", 0)
                      ELSE s3
              ELSE msg(s, "Kademlia bootstrapping peer {peer}, remaining: {n}", "", 0)
         ELSE LET s1 == msg(s, "Failed to bootstrap Kademlia: {e}", "", 0)
              IN IF Running(s1) THEN [s1 EXCEPT !.bootstrap_query_id = None] ELSE s1
    ELSE s

\* on_bootstrap matching any Bootstrap result while an id is tracked
on_bootstrap_any_id(s, e, accepted) ==
    IF s.bootstrap_query_id # None
    THEN IF e.ok
         THEN IF e.last
              THEN LET s1 == [s EXCEPT !.bootstrap_query_id = None]
                       s2 == msg(s1, "Kademlia bootstrapped", "", 0)
                       s3 == IF Running(s2) /\ s2.kademlia
                             THEN kad_start_providing(s2, UNIVERSAL_CONNECTIVITY_AGENT, accepted)
                             ELSE s2
                   IN IF Running(s2) /\ s2.kademlia /\ s3.ret # None
                      THEN msg([s3 EXCEPT !.start_providing_query_id = s3.ret],
                               "Kademlia providing: {key}", "", 0)
                      ELSE s3
              ELSE msg(s, "Kademlia bootstrapping peer {peer}, remaining: {n}", "", 0)
         ELSE LET s1 == msg(s, "Failed to bootstrap Kademlia: {e}", "", 0)
              IN IF Running(s1) THEN [s1 EXCEPT !.bootstrap_query_id = None] ELSE s1
    ELSE s

\* QueryResult::Bootstrap
on_bootstrap(s, e, accepted) ==
    IF s.bootstrap_query_id # None /\ e.id = s.bootstrap_query_id
    THEN IF e.ok
         THEN IF e.last
              THEN LET s1 == [s EXCEPT !.bootstrap_query_id = None]
                       s2 == msg(s1, "Kademlia bootstrapped", "", 0)
                       s3 == IF Running(s2) /\ s2.kademlia
                             THEN kad_start_providing(s2, UNIVERSAL_CONNECTIVITY_AGENT, accepted)
                             ELSE s2
                   IN IF Running(s2) /\ s2.kademlia /\ s3.ret # None
                      THEN msg([s3 EXCEPT !.start_providing_query_id = s3.ret],
                               "Kademlia providing: {key}", "", 0)
                      ELSE s3
              ELSE msg(s, "Kademlia bootstrapping peer {peer}, remaining: {n}", "", 0)
         ELSE LET s1 == msg(s, "Failed to bootstrap Kademlia: {e}", "", 0)
              IN IF Running(s1) THEN [s1 EXCEPT !.bootstrap_query_id = None] ELSE s1
    ELSE s

\* for peer in peers: the peer id, then its first address if it has one
RECURSIVE report_peers(_, _)
report_peers(s, peers) ==
    IF peers = <<>> THEN s
    ELSE LET p == Head(peers)
             s1 == msg(s, "{peer_id}:", p.peer_id, 0)
             s2 == IF p.addrs > 0 THEN msg(s1, "{addr}", p.peer_id, 1) ELSE s1
         IN report_peers(s2, Tail(peers))

\* on_get_closest_peers whose Err arm clears the whole set
on_get_closest_peers_clear(s, e) ==
    IF e.id \in s.get_closest_peers_query_id
    THEN IF e.ok
         THEN LET s1 == [s EXCEPT !.get_closest_peers_query_id = @ \ {e.id}]
                  s2 == msg(s1, "Kademlia {n} potential universal connectivity peers:",
                            "", Len(e.peers))
              IN report_peers(s2, e.peers)
         ELSE msg([s EXCEPT !.get_closest_peers_query_id = {}],
                  "Failed to get closest peers: {e}", "", 0)
    ELSE s

\* QueryResult::GetClosestPeers
on_get_closest_peers(s, e) ==
    IF e.id \in s.get_closest_peers_query_id
    THEN IF e.ok
         THEN LET s1 == [s EXCEPT !.get_closest_peers_query_id = @ \ {e.id}]
                  s2 == msg(s1, "Kademlia {n} potential universal connectivity peers:",
                            "", Len(e.peers))
              IN report_peers(s2, e.peers)
         ELSE msg([s EXCEPT !.get_closest_peers_query_id = @ \ {e.id}],
                  "Failed to get closest peers: {e}", "", 0)
    ELSE s

\* fan_out that forgets to insert the returned id into the set
RECURSIVE fan_out_no_insert(_, _)
fan_out_no_insert(s, peers) ==
    IF peers = <<>> THEN s
    ELSE fan_out_no_insert(kad_get_closest_peers(s, Head(peers)), Tail(peers))

\* for peer in peers: get_closest_peers_query_id.insert(kad.get_closest_peers(peer))
RECURSIVE fan_out(_, _)
fan_out(s, peers) ==
    IF peers = <<>> THEN s
    ELSE LET k == kad_get_closest_peers(s, Head(peers))
         IN fan_out([k EXCEPT !.get_closest_peers_query_id = @ \cup {k.ret}], Tail(peers))

\* on_providers with the get-providers id left tracked
on_providers_keeps_id(s, peers) ==
    IF s.kademlia
    THEN msg(fan_out(s, peers), "Kademlia {n} found providers", "", Len(peers))
    ELSE s

\* the arm shared by FoundProviders { providers } and
\* FinishedWithNoAdditionalRecord { closest_peers }
on_providers(s, peers) ==
    LET s1 == [s EXCEPT !.get_providers_query_id = None]
    IN IF s1.kademlia
       THEN msg(fan_out(s1, peers), "Kademlia {n} found providers", "", Len(peers))
       ELSE s1

\* QueryResult::GetProviders
on_get_providers(s, e) ==
    IF s.get_providers_query_id # None /\ e.id = s.get_providers_query_id
    THEN IF e.ok
         THEN IF e.variant = "FoundProviders"
              THEN on_providers(s, e.providers)
              ELSE on_providers(s, e.providers)
         ELSE msg([s EXCEPT !.get_providers_query_id = None],
                  "Failed to get providers of universal connectivity agent string: {e}", "", 0)
    ELSE s

\* on_start_providing with the key of get_providers not taken from the result
on_start_providing_other_key(s, e) ==
    IF s.start_providing_query_id # None /\ e.id = s.start_providing_query_id
    THEN IF e.ok
         THEN IF e.last
              THEN LET s1 == [s EXCEPT !.start_providing_query_id = None]
                       s2 == msg(s1, "Kademlia provider registered", "", 0)
                       k  == kad_get_providers(s2, "")
                       s3 == IF Running(s2) /\ s2.kademlia
                             THEN [k EXCEPT !.get_providers_query_id = k.ret]
                             ELSE s2
                   IN msg(s3, "Kademlia getting providers for: {key}", "", 0)
              ELSE msg(s, "Kademlia adding provider record: {count}", "", 0)
         ELSE msg([s EXCEPT !.start_providing_query_id = None],
                  "Failed to start providing Kademlia record: {e}", "", 0)
    ELSE s

\* on_start_providing with step.last not looked at
on_start_providing_any_step(s, e) ==
    IF s.start_providing_query_id # None /\ e.id = s.start_providing_query_id
    THEN IF e.ok
         THEN LET s1 == [s EXCEPT !.start_providing_query_id = None]
                  s2 == msg(s1, "Kademlia provider registered", "", 0)
                  k  == kad_get_providers(s2, e.key)
                  s3 == IF Running(s2) /\ s2.kademlia
                        THEN [k EXCEPT !.get_providers_query_id = k.ret]
                        ELSE s2
              IN msg(s3, "Kademlia getting providers for: {key}", "", 0)
         ELSE msg([s EXCEPT !.start_providing_query_id = None],
                  "Failed to start providing Kademlia record: {e}", "", 0)
    ELSE s

\* on_start_providing with the start-providing id left tracked next to the
\* get-providers id
on_start_providing_keeps_id(s, e) ==
    IF s.start_providing_query_id # None /\ e.id = s.start_providing_query_id
    THEN IF e.ok
         THEN IF e.last
              THEN LET s2 == msg(s, "Kademlia provider registered", "", 0)
                       k  == kad_get_providers(s2, e.key)
                       s3 == IF Running(s2) /\ s2.kademlia
                             THEN [k EXCEPT !.get_providers_query_id = k.ret]
                             ELSE s2
                   IN msg(s3, "Kademlia getting providers for: {key}", "", 0)
              ELSE msg(s, "Kademlia adding provider record: {count}", "", 0)
         ELSE msg([s EXCEPT !.start_providing_query_id = None],
                  "Failed to start providing Kademlia record: {e}", "", 0)
    ELSE s

\* QueryResult::StartProviding
on_start_providing(s, e) ==
    IF s.start_providing_query_id # None /\ e.id = s.start_providing_query_id
    THEN IF e.ok
         THEN IF e.last
              THEN LET s1 == [s EXCEPT !.start_providing_query_id = None]
                       s2 == msg(s1, "Kademlia provider registered", "", 0)
                       k  == kad_get_providers(s2, e.key)
                       s3 == IF Running(s2) /\ s2.kademlia
                             THEN [k EXCEPT !.get_providers_query_id = k.ret]
                             ELSE s2
                   IN msg(s3, "Kademlia getting providers for: {key}", "", 0)
              ELSE msg(s, "Kademlia adding provider record: {count}", "", 0)
         ELSE msg([s EXCEPT !.start_providing_query_id = None],
                  "Failed to start providing Kademlia record: {e}", "", 0)
    ELSE s

\* match result { ... }
on_query_progressed(s, e, accepted) ==
    CASE e.kind = "Bootstrap"       -> on_bootstrap(s, e, accepted)
      [] e.kind = "GetClosestPeers" -> on_get_closest_peers(s, e)
      [] e.kind = "GetProviders"    -> on_get_providers(s, e)
      [] e.kind = "StartProviding"  -> on_start_providing(s, e)
      [] OTHER                      -> s

\* ------------------------------------------------------------ environment
\* the events self.swarm.next() can yield for the behaviour's running queries
KademliaEvents ==
    UNION {
      LET q == queries[id]
      IN CASE q.kind = "GetProviders" ->
                {Ev("Kademlia", q.kind, id, ok, last, v, q.key, IF ok THEN pl ELSE <<>>, <<>>) :
                    ok \in BOOLEAN, last \in BOOLEAN, pl \in ProviderLists,
                    v \in {"FoundProviders", "FinishedWithNoAdditionalRecord"}}
           [] q.kind = "GetClosestPeers" ->
                {Ev("Kademlia", q.kind, id, ok, last, "", "", <<>>, IF ok THEN pl ELSE <<>>) :
                    ok \in BOOLEAN, last \in BOOLEAN, pl \in PeerInfoLists}
           [] OTHER ->
                {Ev("Kademlia", q.kind, id, ok, last, "", q.key, <<>>, <<>>) :
                    ok \in BOOLEAN, last \in BOOLEAN}
      : id \in {i \in 1..Len(queries) : i \notin finished}}

\* how many sends of the coming handler succeed before the receiver is
\* dropped; n is the number of sends the handler makes when none fails
Budgets(n) ==
    IF ui_open THEN {Unlimited} \cup {b \in 0..MaxCloseAfter : b < n} ELSE {0}

\* the results kad.start_providing can give where the handler calls it
Acceptances(e) == IF e.kind = "Bootstrap" /\ e.ok /\ e.last THEN BOOLEAN ELSE {TRUE}

\* the handler's result becomes the Peer's state; a failed send ends run()
Commit(s) ==
    /\ bootstrap_query_id' = s.bootstrap_query_id
    /\ start_providing_query_id' = s.start_providing_query_id
    /\ get_providers_query_id' = s.get_providers_query_id
    /\ get_closest_peers_query_id' = s.get_closest_peers_query_id
    /\ queries' = s.queries
    /\ sent' = s.sent
    /\ ops' = s.ops
    /\ ui_open' = (ui_open /\ s.status # "err")
    /\ UNCHANGED <<kademlia, substream, discovery, channels>>

\* a loop that awaits recv() instead: no select! before an intent was taken
Select_after_recv == pc = "loop" /\ drained

\* run() waits in the select!: the try_recv of this iteration took an intent,
\* or found none to take
Select == pc = "loop" /\ (drained \/ from_ui = <<>>)

\* a loop whose next iteration does not look at the queue of intents again
NextIteration_once == UNCHANGED <<drained, from_ui>>

\* the branch of the select! is done and the loop starts its next iteration
NextIteration == drained' = FALSE /\ UNCHANGED from_ui

Init ==
    /\ pc = "start"
    /\ kademlia \in BOOLEAN
    /\ ui_open = TRUE
    /\ from_ui = <<>>
    /\ drained = FALSE
    /\ bootstrap_query_id = None
    /\ start_providing_query_id = None
    /\ get_providers_query_id = None
    /\ get_closest_peers_query_id = {}
    /\ queries = <<>>
    /\ finished = {}
    /\ ev = NoEv("Init")
    /\ sent = <<>>
    /\ ops = <<>>
    /\ socket = <<>>
    /\ closed = FALSE
    /\ written = NoWrite
    /\ result = NoRead
    /\ record = DiscoveredPeer(<<>>, <<>>)
    /\ payload = [published |-> FALSE, data |-> <<>>, unknown |-> <<>>]
    /\ decoded = [done |-> FALSE, ok |-> FALSE, val |-> <<>>]
    /\ to_ui = <<>>
    /\ outgoing = <<>>
    /\ typed = <<>>
    /\ cancelled = FALSE

\* run(), up to the loop: the startup bootstrap
startup(s, accepted) ==
    IF s.kademlia
    THEN LET k == kad_bootstrap(s, accepted)
         IN IF k.ret # None
            THEN msg([k EXCEPT !.bootstrap_query_id = k.ret], "Bootstrapping Kademlia", "", 0)
            ELSE msg(msg(k, "Failed to bootstrap Kademlia: {e}", "", 0),
                     "Don't worry, it will try again in {n} seconds", "", 0)
    ELSE s

\* run(), up to the loop: listen, external addresses, dials, bootstrap
before_loop(s, opt, accepted) ==
    LET d == dial_given(external(listen(s, opt.listen_addresses, opt.listen_failing),
                                 opt.external_addresses),
                        opt.to_dial, opt.dial_ok)
    IN IF Running(d) THEN startup(d, accepted) ELSE d

\* the command line, and the results of the calls on the swarm at startup
ToDialTexts == {"/ip4/1.2.3.4", "P1", "not-an-address"}
Opts ==
    UNION {[listen_addresses : {<<PrivateAddr \o TcpAddr>>},
            listen_failing : SUBSET {PrivateAddr \o TcpAddr},
            external_addresses : {<<>>, <<Ip4Addr>>, <<PrivateAddr>>},
            to_dial : [1..n -> ToDialTexts],
            dial_ok : [1..n -> BOOLEAN]] : n \in 0..MaxToDial}

Startup ==
    /\ pc = "start"
    /\ \E accepted \in BOOLEAN : \E opt \in Opts :
         \E budget \in Budgets(Len(before_loop(PeerState(Unlimited), opt, accepted).sent)) :
         LET s == before_loop(PeerState(budget), opt, accepted)
         IN /\ Commit(s)
            /\ pc' = IF Running(s) THEN "loop" ELSE "failed"
            /\ ev' = [opt |-> opt] @@ NoEv("Startup")
    /\ UNCHANGED <<finished, from_ui, drained>>

\* Some(event) = self.swarm.next(), a Kademlia query progress event
KademliaEvent ==
    /\ Select
    /\ NextIteration
    /\ \E e \in KademliaEvents : \E accepted \in Acceptances(e) :
         \E budget \in Budgets(Len(on_query_progressed(PeerState(Unlimited), e, accepted).sent)) :
         LET s == on_query_progressed(PeerState(budget), e, accepted)
         IN /\ Commit(s)
            /\ pc' = IF Running(s) THEN "loop" ELSE "failed"
            /\ ev' = e
            /\ finished' = IF e.last THEN finished \cup {e.id} ELSE finished

\* _ = tick.tick() => {}
Tick ==
    /\ Select
    /\ NextIteration
    /\ ev' = NoEv("Tick")
    /\ sent' = <<>>
    /\ ops' = <<>>
    /\ UNCHANGED <<pc, kademlia, ui_open, tracking, queries, finished, substream, discovery, channels>>

\* the behaviour's own periodic bootstrap (set_periodic_bootstrap_interval):
\* a Bootstrap query the Peer never sees the id of
KadPeriodicBootstrap ==
    /\ pc = "loop"
    /\ kademlia
    /\ Cardinality({i \in 1..Len(queries) : queries[i].kind = "Bootstrap"}) < MaxBootstraps
    /\ queries' = Append(queries, Query("Bootstrap", "", ""))
    /\ ev' = NoEv("KadPeriodicBootstrap")
    /\ sent' = <<>>
    /\ ops' = <<>>
    /\ UNCHANGED <<pc, kademlia, ui_open, from_ui, drained, tracking, finished,
                   substream, discovery, channels>>

\* the messages the UI can put on the channel to the Peer
Intents ==
    {Chat(LocalPeer, d) : d \in ChatInputs}
        \cup {AllPeers(<<>>), AddPeer("P1")}

\* what gossipsub.all_peers() lists, topics left out
AllPeerLists == ProviderLists

\* the UI sends an intent: to_peer.send(..).await
UiSend ==
    /\ pc \in {"start", "loop"}
    /\ ui_open
    /\ Len(from_ui) < MaxPending
    /\ \E m \in Intents : from_ui' = Append(from_ui, m)
    /\ ev' = NoEv("UiSend")
    /\ sent' = <<>>
    /\ ops' = <<>>
    /\ UNCHANGED <<pc, kademlia, ui_open, drained, tracking, queries, finished,
                   substream, discovery, channels>>

\* the top of an iteration: try_recv took an intent, and it is handled
UiIntent ==
    /\ pc = "loop"
    /\ ~drained
    /\ from_ui # <<>>
    /\ LET m == Head(from_ui)
       IN \E publish_ok \in IF m.type = "Chat" THEN BOOLEAN ELSE {TRUE} :
          \E peers \in IF m.type = "AllPeers" THEN AllPeerLists ELSE {<<>>} :
          \E budget \in Budgets(Len(on_ui_message(PeerState(Unlimited), m, publish_ok, peers).sent)) :
          LET s == on_ui_message(PeerState(budget), m, publish_ok, peers)
          IN /\ Commit(s)
             /\ pc' = IF Running(s) THEN "loop" ELSE "failed"
             /\ ev' = [intent |-> m] @@ NoEv("UiIntent")
    /\ from_ui' = Tail(from_ui)
    /\ drained' = TRUE
    /\ UNCHANGED finished

\* where run() is after a handler that ended as s
Exit(s) ==
    CASE s.status = "ok" -> "loop"
      [] s.status = "panic" -> "panicked"
      [] OTHER -> "failed"

\* the discovery records peers publish
DiscoveryRecords ==
    {DiscoveredPeer(<<>>, <<>>),
     DiscoveredPeer(encode_protobuf(1), <<Ip4Addr>>),
     DiscoveredPeer(encode_protobuf(2), <<Ip4Addr, TcpAddr>>),
     DiscoveredPeer(<<9>>, <<NoAddr, TcpAddr>>)}

\* a record cut short in its last field, and a record behind a byte that is
\* no tag
BrokenRecords ==
    LET w == write_message(DiscoveredPeer(encode_protobuf(1), <<Ip4Addr>>))
    IN {SubSeq(w, 1, Len(w) - 1), <<255>> \o w}

\* payloads on the peer-discovery topic: the records as written, a record
\* behind a field the reader skips, and the broken ones
DiscoveryPayloads ==
    {write_message(r) : r \in DiscoveryRecords}
        \cup {<<8, 5>> \o write_message(DiscoveredPeer(encode_protobuf(1), <<Ip4Addr>>))}
        \cup BrokenRecords

\* payloads on other topics: nothing, a varint field, a length-delimited
\* field, a length-delimited field behind a second length, a group tag
UnknownPayloads ==
    {<<>>, <<8, 5>>, <<10, 1, 65>>, <<10, 0, 1, 65>>, <<11>>}

Topics ==
    {GOSSIPSUB_CHAT_TOPIC, GOSSIPSUB_CHAT_FILE_TOPIC, GOSSIPSUB_PEER_DISCOVERY, "other-topic"}

PayloadsOn(topic) ==
    CASE topic = GOSSIPSUB_PEER_DISCOVERY -> DiscoveryPayloads
      [] topic \in {GOSSIPSUB_CHAT_TOPIC, GOSSIPSUB_CHAT_FILE_TOPIC} -> GossipTexts
      [] OTHER -> UnknownPayloads

\* the messages gossipsub can deliver
GossipsubMessages ==
    UNION {{GossipsubMessage(topic, source, data) :
               source \in {NoPeer} \cup PeerIds, data \in PayloadsOn(topic)} :
           topic \in Topics}

\* the addresses the handler of e dials
DialedBy(e) ==
    LET m == try_from(e)
    IN IF m.ok
       THEN {m.val.discovered_addrs[i] : i \in 1..Len(m.val.discovered_addrs)}
       ELSE {}

\* Some(event) = self.swarm.next(), a gossipsub message
OnGossipsubMessage ==
    /\ Select
    /\ NextIteration
    /\ \E e \in GossipsubMessages : \E failing \in SUBSET DialedBy(e) :
         \E budget \in Budgets(Len(on_gossipsub_message(PeerState(Unlimited), e, failing).sent)) :
         LET s == on_gossipsub_message(PeerState(budget), e, failing)
         IN /\ Commit(s)
            /\ pc' = Exit(s)
            /\ ev' = [failing |-> failing] @@ e
    /\ UNCHANGED finished

\* the identify infos peers send
IdentifyInfos ==
    [agent_version : {UNIVERSAL_CONNECTIVITY_AGENT, "other-agent/1.0"},
     peer : {"P1"},
     listen_addrs :
        {q \in UNION {[1..n -> {Ip4Addr, TcpAddr, PrivateAddr}] : n \in 0..MaxListenAddrs} :
            \A i, j \in 1..Len(q) : i # j => q[i] # q[j]}]

\* the addresses of an identify info that the handler dials
PublicAddrs(info) ==
    {info.listen_addrs[i] : i \in {j \in 1..Len(info.listen_addrs) :
                                      ~is_private_ip(info.listen_addrs[j])}}

\* Some(event) = self.swarm.next(), an identify info received from a peer
OnIdentifyReceived ==
    /\ Select
    /\ NextIteration
    /\ \E info \in IdentifyInfos :
         \E failing \in IF info.agent_version = UNIVERSAL_CONNECTIVITY_AGENT
                        THEN SUBSET PublicAddrs(info) ELSE {{}} :
         \E budget \in Budgets(Len(on_identify_received(PeerState(Unlimited), info, failing).sent)) :
         LET s == on_identify_received(PeerState(budget), info, failing)
         IN /\ Commit(s)
            /\ pc' = Exit(s)
            /\ ev' = [info |-> info, failing |-> failing] @@ NoEv("Identify")
    /\ UNCHANGED finished

\* Some(event) = self.swarm.next(), a connection to a peer established
OnConnectionEstablished ==
    /\ Select
    /\ NextIteration
    /\ \E peer_id \in PeerIds : \E budget \in Budgets(0) :
         LET s == on_connection_established(PeerState(budget), peer_id)
         IN /\ Commit(s)
            /\ pc' = Exit(s)
            /\ ev' = [peer |-> peer_id] @@ NoEv("ConnectionEstablished")
    /\ UNCHANGED finished

\* Some(event) = self.swarm.next(), a connection to a peer closed
OnConnectionClosed ==
    /\ Select
    /\ NextIteration
    /\ \E peer_id \in PeerIds : \E budget \in Budgets(1) :
         LET s == on_connection_closed(PeerState(budget), peer_id)
         IN /\ Commit(s)
            /\ pc' = Exit(s)
            /\ ev' = [peer |-> peer_id] @@ NoEv("ConnectionClosed")
    /\ UNCHANGED finished

\* Some(event) = self.swarm.next(), a peer subscribed to a topic
OnSubscribed ==
    /\ Select
    /\ NextIteration
    /\ \E peer_id \in PeerIds : \E topic \in Topics :
         \E budget \in Budgets(Len(on_subscribed(PeerState(Unlimited), peer_id, topic).sent)) :
         LET s == on_subscribed(PeerState(budget), peer_id, topic)
         IN /\ Commit(s)
            /\ pc' = Exit(s)
            /\ ev' = [peer |-> peer_id, topic |-> topic] @@ NoEv("Subscribed")
    /\ UNCHANGED finished

\* Some(event) = self.swarm.next(), a peer unsubscribed from a topic
OnUnsubscribed ==
    /\ Select
    /\ NextIteration
    /\ \E peer_id \in PeerIds : \E topic \in Topics :
         \E budget \in Budgets(Len(on_unsubscribed(PeerState(Unlimited), peer_id, topic).sent)) :
         LET s == on_unsubscribed(PeerState(budget), peer_id, topic)
         IN /\ Commit(s)
            /\ pc' = Exit(s)
            /\ ev' = [peer |-> peer_id, topic |-> topic] @@ NoEv("Unsubscribed")
    /\ UNCHANGED finished

\* the UI task ends and drops its ends of both channels
UiClose ==
    /\ pc \in {"start", "loop"}
    /\ ui_open
    /\ ui_open' = FALSE
    /\ ev' = NoEv("UiClose")
    /\ sent' = <<>>
    /\ ops' = <<>>
    /\ UNCHANGED <<pc, kademlia, from_ui, drained, tracking, queries, finished,
                   substream, discovery, channels>>

Next ==
    \/ Startup
    \/ KademliaEvent
    \/ Tick
    \/ KadPeriodicBootstrap
    \/ UiClose

Spec == Init /\ [][Next]_vars

\* the loop with the UI's intents and the gossipsub and identify events,
\* the Kademlia events left out
NextLoop ==
    \/ Startup
    \/ Tick
    \/ UiSend
    \/ UiIntent
    \/ OnGossipsubMessage
    \/ OnIdentifyReceived
    \/ OnConnectionEstablished
    \/ OnConnectionClosed
    \/ OnSubscribed
    \/ OnUnsubscribed
    \/ UiClose

SpecLoop == Init /\ [][NextLoop]_vars

\* ----------------------------------------- a substream of the file exchange
\* file ids (Strings) a FileRequest is written with: of one letter repeated,
\* up to the limit and one beyond, and one with a two-byte character
FileIds ==
    {IF n = 0 THEN <<>> ELSE <<Run(97, n)>> :
        n \in {0, 1, 127, 128, 16383, max_request_size, max_request_size + 1}}
        \cup {bytes_of(<<104, 195, 169>>)}

\* file bodies (Vec<u8>) a FileResponse is written with: of one byte
\* repeated, up to the limit and one beyond, and one that is not UTF-8
FileBodies ==
    {IF n = 0 THEN <<>> ELSE <<Run(255, n)>> :
        n \in {0, 1, 127, 128, 16383, max_request_size, max_response_size,
                max_response_size + 1}}
        \cup {bytes_of(<<0, 195>>)}

\* what a remote that does not use this codec may write: a length with a
\* needless zero byte, ten bytes that all continue, a file id that is not
\* UTF-8, a length that never ends minimally, a frame with a byte behind
\* it, a frame of an oversized length without its payload
RemoteStreams ==
    {bytes_of(<<128, 0>>), <<Run(255, 10)>>, bytes_of(<<1, 195>>),
     <<Run(128, 1), Run(0, 10)>>, bytes_of(<<2, 97, 98, 99>>)}

\* the requester writes its FileRequest
WriteRequest ==
    /\ written = NoWrite /\ ~closed
    /\ \E file_id \in FileIds :
         /\ socket' = write_request(socket, file_id)
         /\ written' = [op |-> "write_request", data |-> file_id,
                         arrived |-> bytes_len(socket')]
    /\ UNCHANGED <<closed, result, running, discovery, channels>>

\* the responder writes its FileResponse
WriteResponse ==
    /\ written = NoWrite /\ ~closed
    /\ \E file_body \in FileBodies :
         /\ socket' = write_response(socket, file_body)
         /\ written' = [op |-> "write_response", data |-> file_body,
                         arrived |-> bytes_len(socket')]
    /\ UNCHANGED <<closed, result, running, discovery, channels>>

\* a remote writes bytes of its own making
RemoteWrite ==
    /\ written = NoWrite /\ ~closed
    /\ \E bytes \in RemoteStreams :
         /\ socket' = bytes
         /\ written' = [op |-> "remote", data |-> <<>>, arrived |-> bytes_len(bytes)]
    /\ UNCHANGED <<closed, result, running, discovery, channels>>

\* the writer closes its end: with its frame written, or with nothing
Close ==
    /\ ~closed /\ result = NoRead
    /\ closed' = TRUE
    /\ UNCHANGED <<socket, written, result, running, discovery, channels>>

\* the substream ends with only the first k bytes of what was written: up
\* to MaxCut bytes from the start, or up to MaxCut short of the end
Cut ==
    /\ ~closed /\ result = NoRead /\ written # NoWrite
    /\ \E k \in (0..MaxCut) \cup ((bytes_len(socket) - MaxCut)..(bytes_len(socket) - 1)) :
         /\ k >= 0 /\ k < bytes_len(socket)
         /\ socket' = bytes_take(socket, k)
         /\ written' = [written EXCEPT !.arrived = k]
    /\ closed' = TRUE
    /\ UNCHANGED <<result, running, discovery, channels>>

\* the responder reads the FileRequest, once the bytes or the end of the
\* substream that its read waits for are there: the result is kept, and
\* the socket holds what the read left
ReadRequest ==
    /\ result = NoRead
    /\ LET r == read_request(socket, closed)
       IN /\ r.kind # "Pending"
          /\ result' = [op |-> "read_request", kind |-> r.kind, why |-> r.why, val |-> r.val]
          /\ socket' = r.rest
    /\ UNCHANGED <<closed, written, running, discovery, channels>>

\* the requester reads the FileResponse
ReadResponse ==
    /\ result = NoRead
    /\ LET r == read_response(socket, closed)
       IN /\ r.kind # "Pending"
          /\ result' = [op |-> "read_response", kind |-> r.kind, why |-> r.why, val |-> r.val]
          /\ socket' = r.rest
    /\ UNCHANGED <<closed, written, running, discovery, channels>>

NextWire ==
    \/ WriteRequest
    \/ WriteResponse
    \/ RemoteWrite
    \/ Close
    \/ Cut
    \/ ReadRequest
    \/ ReadResponse

SpecWire == Init /\ [][NextWire]_vars

\* ------------------------------------------- a published discovery record
\* the records peers publish: a key that is valid, or not (no key type has
\* the field number 9), and up to MaxRecordAddrs addresses of which at most
\* one is no multiaddr
Records ==
    {DiscoveredPeer(k, q) :
        k \in {encode_protobuf(1), encode_protobuf(2), <<9>>},
        q \in {a \in UNION {[1..n -> {Ip4Addr, TcpAddr, NoAddr}] : n \in 0..MaxRecordAddrs} :
                 Cardinality({i \in 1..Len(a) : a[i] = NoAddr}) <= 1}}

\* fields a Peer message of a later version may carry: a varint (field 1),
\* a fixed64, a length-delimited and a group start (field 3), a fixed32
\* (field 4)
UnknownFields ==
    {<<8, 5>>, <<25, 1, 2, 3, 4, 5, 6, 7, 8>>, <<26, 1, 65>>, <<27>>, <<37, 1, 2, 3, 4>>}

InitRecord ==
    /\ pc = "start"
    /\ kademlia = TRUE
    /\ ui_open = TRUE
    /\ from_ui = <<>>
    /\ drained = FALSE
    /\ bootstrap_query_id = None
    /\ start_providing_query_id = None
    /\ get_providers_query_id = None
    /\ get_closest_peers_query_id = {}
    /\ queries = <<>>
    /\ finished = {}
    /\ ev = NoEv("Init")
    /\ sent = <<>>
    /\ ops = <<>>
    /\ socket = <<>>
    /\ closed = FALSE
    /\ written = NoWrite
    /\ result = NoRead
    /\ record \in Records
    /\ payload = [published |-> FALSE, data |-> <<>>, unknown |-> <<>>]
    /\ decoded = [done |-> FALSE, ok |-> FALSE, val |-> <<>>]
    /\ to_ui = <<>>
    /\ outgoing = <<>>
    /\ typed = <<>>
    /\ cancelled = FALSE

\* a peer publishes the record: as write_message writes it, or with one
\* unknown field in front of it (j < 0) or behind its key and j addresses
Publish ==
    /\ ~payload.published
    /\ \E u \in UnknownFields \cup {<<>>} : \E j \in (-1)..Len(record.multiAddrs) :
         /\ u = <<>> => j = -1
         /\ payload' =
              [published |-> TRUE, unknown |-> u,
               data |-> IF j < 0 THEN u \o write_message(record)
                        ELSE write_message([record EXCEPT !.multiAddrs = SubSeq(@, 1, j)])
                               \o u
                               \o write_addrs(SubSeq(record.multiAddrs, j + 1,
                                                     Len(record.multiAddrs)))]
    /\ UNCHANGED <<record, decoded, running, substream, channels>>

\* UniversalConnectivityMessage::try_from of the message that carries the
\* payload
TryFrom ==
    /\ payload.published /\ ~decoded.done
    /\ decoded' = [done |-> TRUE]
                    @@ try_from(GossipsubMessage(GOSSIPSUB_PEER_DISCOVERY, NoPeer, payload.data))
    /\ UNCHANGED <<record, payload, running, substream, channels>>

NextRecord ==
    \/ Publish
    \/ TryFrom

SpecRecord == InitRecord /\ [][NextRecord]_vars

\* ------------------------------------- the Peer task and the UI task
\* run() is in its loop, the UI has taken the messages of the startup
InitTasks ==
    /\ pc = "loop"
    /\ kademlia = FALSE
    /\ ui_open = TRUE
    /\ from_ui = <<>>
    /\ drained = FALSE
    /\ bootstrap_query_id = None
    /\ start_providing_query_id = None
    /\ get_providers_query_id = None
    /\ get_closest_peers_query_id = {}
    /\ queries = <<>>
    /\ finished = {}
    /\ ev = NoEv("Init")
    /\ sent = <<>>
    /\ ops = <<>>
    /\ socket = <<>>
    /\ closed = FALSE
    /\ written = NoWrite
    /\ result = NoRead
    /\ record = DiscoveredPeer(<<>>, <<>>)
    /\ payload = [published |-> FALSE, data |-> <<>>, unknown |-> <<>>]
    /\ decoded = [done |-> FALSE, ok |-> FALSE, val |-> <<>>]
    /\ to_ui = <<>>
    /\ outgoing = <<>>
    /\ typed = <<>>
    /\ cancelled = FALSE

\* run() goes through the handler that ended as s: its operations are
\* issued, and its messages wait to be put on to_ui one by one
Handle(s) ==
    /\ outgoing' = s.sent
    /\ pc' = IF s.sent = <<>> THEN Exit(s) ELSE "send"
    /\ ops' = s.ops
    /\ sent' = <<>>
    /\ UNCHANGED <<kademlia, ui_open, tracking, queries, finished,
                   to_ui, typed, cancelled, substream, discovery>>

\* the top of an iteration: try_recv took an intent (no peer is subscribed
\* when AllPeers is answered)
TryRecv ==
    /\ pc = "loop"
    /\ ~drained
    /\ from_ui # <<>>
    /\ \E publish_ok \in IF Head(from_ui).type = "Chat" THEN BOOLEAN ELSE {TRUE} :
         Handle(on_ui_message(PeerState(Unlimited), Head(from_ui), publish_ok, <<>>))
    /\ from_ui' = Tail(from_ui)
    /\ drained' = TRUE
    /\ ev' = NoEv("TryRecv")

\* the gossipsub messages of this part: a chat line of P1, and a discovery
\* record that from_reader rejects
TaskEvents ==
    {GossipsubMessage(GOSSIPSUB_CHAT_TOPIC, "P1", <<104, 105>>),
     GossipsubMessage(GOSSIPSUB_PEER_DISCOVERY, "P1", <<255>>)}

\* Some(event) = self.swarm.next(), a gossipsub message
SwarmNext ==
    /\ Select
    /\ NextIteration
    /\ \E e \in TaskEvents : Handle(on_gossipsub_message(PeerState(Unlimited), e, {}))
    /\ ev' = NoEv("SwarmNext")

\* the branch that goes round the loop again instead of leaving it
Shutdown_no_break ==
    /\ Select
    /\ NextIteration
    /\ cancelled
    /\ \E subscribed \in SUBSET {GOSSIPSUB_CHAT_TOPIC, GOSSIPSUB_CHAT_FILE_TOPIC,
                                 GOSSIPSUB_PEER_DISCOVERY} :
         ops' = on_shutdown(PeerState(Unlimited),
                            <<GOSSIPSUB_CHAT_TOPIC, GOSSIPSUB_CHAT_FILE_TOPIC,
                              GOSSIPSUB_PEER_DISCOVERY>>, subscribed).ops
    /\ ev' = NoEv("Shutdown")
    /\ sent' = <<>>
    /\ UNCHANGED <<pc, kademlia, ui_open, tracking, queries, finished,
                   channels, substream, discovery>>

\* _ = self.shutdown.cancelled() => { unsubscribe ..; break; } and Ok(())
Shutdown ==
    /\ Select
    /\ cancelled
    /\ \E subscribed \in SUBSET {GOSSIPSUB_CHAT_TOPIC, GOSSIPSUB_CHAT_FILE_TOPIC,
                                 GOSSIPSUB_PEER_DISCOVERY} :
         ops' = on_shutdown(PeerState(Unlimited),
                            <<GOSSIPSUB_CHAT_TOPIC, GOSSIPSUB_CHAT_FILE_TOPIC,
                              GOSSIPSUB_PEER_DISCOVERY>>, subscribed).ops
    /\ pc' = "done"
    /\ ev' = NoEv("Shutdown")
    /\ sent' = <<>>
    /\ UNCHANGED <<kademlia, ui_open, from_ui, drained, tracking, queries, finished,
                   channels, substream, discovery>>

\* self.to_ui.send(m).await returns Ok: the queue had room for the message
ToUiSend ==
    /\ pc = "send"
    /\ ui_open
    /\ Len(to_ui) < MaxQueued
    /\ to_ui' = Append(to_ui, Head(outgoing))
    /\ outgoing' = Tail(outgoing)
    /\ pc' = IF Tail(outgoing) = <<>> THEN "loop" ELSE "send"
    /\ ev' = NoEv("ToUiSend")
    /\ sent' = <<Head(outgoing)>>
    /\ ops' = <<>>
    /\ UNCHANGED <<kademlia, ui_open, from_ui, drained, tracking, queries, finished,
                   typed, cancelled, substream, discovery>>

\* self.to_ui.send(m).await? returns Err: the UI dropped the receiver
ToUiSendErr ==
    /\ pc = "send"
    /\ ~ui_open
    /\ pc' = "failed"
    /\ outgoing' = <<>>
    /\ ev' = NoEv("ToUiSendErr")
    /\ sent' = <<>>
    /\ ops' = <<>>
    /\ UNCHANGED <<kademlia, ui_open, from_ui, drained, tracking, queries, finished,
                   to_ui, typed, cancelled, substream, discovery>>

\* what the UI reads from the keyboard in one pass of its loop
Keys == {"none", "Enter", "CtrlShiftP", "CtrlC"}

\* one pass of Tui::run: from_peer.try_recv() takes a message if there is
\* one, then the key read, if any: Enter and Ctrl+Shift+P start the send of
\* an intent, Ctrl+C cancels the token and leaves the loop
TuiLoop ==
    /\ ui_open
    /\ typed = <<>>
    /\ to_ui' = IF to_ui = <<>> THEN to_ui ELSE Tail(to_ui)
    /\ \E key \in Keys :
         /\ typed' = CASE key = "Enter" -> <<Chat(LocalPeer, <<104>>)>>
                       [] key = "CtrlShiftP" -> <<AllPeers(<<>>)>>
                       [] OTHER -> <<>>
         /\ cancelled' = (cancelled \/ key = "CtrlC")
         /\ ui_open' = (key # "CtrlC")
    /\ ev' = NoEv("TuiLoop")
    /\ sent' = <<>>
    /\ ops' = <<>>
    /\ UNCHANGED <<pc, kademlia, from_ui, drained, tracking, queries, finished,
                   outgoing, substream, discovery>>

\* self.to_peer.send(intent).await returns Ok: the queue had room for it
ToPeerSend ==
    /\ ui_open
    /\ typed # <<>>
    /\ pc \in {"loop", "send"}
    /\ Len(from_ui) < MaxPending
    /\ from_ui' = Append(from_ui, typed[1])
    /\ typed' = <<>>
    /\ ev' = NoEv("ToPeerSend")
    /\ sent' = <<>>
    /\ ops' = <<>>
    /\ UNCHANGED <<pc, kademlia, ui_open, drained, tracking, queries, finished,
                   to_ui, outgoing, cancelled, substream, discovery>>

\* self.to_peer.send(intent).await? returns Err: run() has returned and the
\* receiver is dropped; Tui::run returns the error
ToPeerSendErr ==
    /\ ui_open
    /\ typed # <<>>
    /\ pc \notin {"loop", "send"}
    /\ ui_open' = FALSE
    /\ typed' = <<>>
    /\ ev' = NoEv("ToPeerSendErr")
    /\ sent' = <<>>
    /\ ops' = <<>>
    /\ UNCHANGED <<pc, kademlia, from_ui, drained, tracking, queries, finished,
                   to_ui, outgoing, cancelled, substream, discovery>>

NextTasks ==
    \/ TryRecv
    \/ SwarmNext
    \/ Tick
    \/ Shutdown
    \/ ToUiSend
    \/ ToUiSendErr
    \/ TuiLoop
    \/ ToPeerSend
    \/ ToPeerSendErr

SpecTasks == InitTasks /\ [][NextTasks]_vars

\* both tasks are spawned on the runtime and each is run whenever it can go
\* on; the interval of the tick always fires; select! takes its ready
\* branches in random order, so a cancelled token is not passed over for ever
FairTasks ==
    /\ SpecTasks
    /\ WF_vars(TryRecv)
    /\ WF_vars(Tick)
    /\ SF_vars(Shutdown)
    /\ WF_vars(ToUiSend)
    /\ WF_vars(ToUiSendErr)
    /\ WF_vars(TuiLoop)
    /\ WF_vars(ToPeerSend)
    /\ WF_vars(ToPeerSendErr)

\* ------------------------------------------------------------ properties
\* the ids the Peer tracks for results of one kind
Tracked(kind) ==
    CASE kind = "Bootstrap"       -> {bootstrap_query_id} \ {None}
      [] kind = "StartProviding"  -> {start_providing_query_id} \ {None}
      [] kind = "GetProviders"    -> {get_providers_query_id} \ {None}
      [] kind = "GetClosestPeers" -> get_closest_peers_query_id
      [] OTHER                    -> {}

\* this step handles a query progress event of the kind, for an id the Peer
\* tracks for that kind
Handles(kind) ==
    /\ ev'.type = "Kademlia"
    /\ ev'.kind = kind
    /\ ev'.id \in Tracked(kind)

OpsNamed(q, op) == {i \in 1..Len(q) : q[i].op = op}

\* C1 (as amended): with the DHT enabled, when a successful Bootstrap step
\* flagged last arrives for the tracked bootstrap id, the bootstrap id is
\* cleared; if the "Kademlia bootstrapped" message reaches the UI, exactly one
\* start-providing call is made, for the well-known key, and the id it returns
\* (if it returns one) becomes the tracked start-providing id.
C1_BootstrapLastStartsProviding ==
    [][(Handles("Bootstrap") /\ ev'.ok /\ ev'.last /\ kademlia)
         => /\ bootstrap_query_id' = None
            /\ sent' # <<>> =>
                 /\ Len(ops') = 1
                 /\ ops'[1].op = "start_providing"
                 /\ ops'[1].key = UNIVERSAL_CONNECTIVITY_AGENT
                 /\ start_providing_query_id' =
                      IF ops'[1].ret # None THEN ops'[1].ret ELSE start_providing_query_id
            /\ sent' = <<>> => ops' = <<>> /\ pc' = "failed"]_vars

\* C1 as stated: the final successful Bootstrap step for the tracked id always
\* issues exactly one start-providing call and stores the returned id.
C1_AsStated ==
    [][(Handles("Bootstrap") /\ ev'.ok /\ ev'.last /\ kademlia)
         => /\ bootstrap_query_id' = None
            /\ Len(ops') = 1
            /\ ops'[1].op = "start_providing"
            /\ ops'[1].key = UNIVERSAL_CONNECTIVITY_AGENT
            /\ start_providing_query_id' = ops'[1].ret]_vars

C1_Witness ==
    /\ pc = "loop"
    /\ ev.type = "Kademlia" /\ ev.kind = "Bootstrap" /\ ev.ok /\ ev.last
    /\ bootstrap_query_id = None
    /\ Len(ops) = 1 /\ ops[1].op = "start_providing" /\ ops[1].ret # None
    /\ start_providing_query_id = ops[1].ret

\* C2 (as amended): a successful step NOT flagged last for the tracked
\* bootstrap id (respectively start-providing id) issues no Kademlia operation
\* and changes no tracked id; with the UI channel open it sends exactly one
\* progress Event, and with the channel closed it sends nothing and run() ends.
C2_NonLastStepOnlyReports ==
    [][((Handles("Bootstrap") \/ Handles("StartProviding")) /\ ev'.ok /\ ~ev'.last)
         => /\ ops' = <<>>
            /\ tracking' = tracking
            /\ pc' = "loop" =>
                 /\ Len(sent') = 1
                 /\ sent'[1].type = "Event"
                 /\ sent'[1].text =
                      IF ev'.kind = "Bootstrap"
                      THEN "Kademlia bootstrapping peer {peer}, remaining: {n}"
                      ELSE "Kademlia adding provider record: {count}"
            /\ pc' # "loop" => sent' = <<>> /\ pc' = "failed"]_vars

\* C2 as stated: the non-final step always emits one progress Event.
C2_AsStated ==
    [][((Handles("Bootstrap") \/ Handles("StartProviding")) /\ ev'.ok /\ ~ev'.last)
         => /\ OpsNamed(ops', "start_providing") = {}
            /\ OpsNamed(ops', "get_providers") = {}
            /\ bootstrap_query_id' = bootstrap_query_id
            /\ start_providing_query_id' = start_providing_query_id
            /\ Len(sent') = 1
            /\ sent'[1].type = "Event"]_vars

C2_Witness ==
    /\ pc = "loop"
    /\ ev.type = "Kademlia" /\ ev.kind = "StartProviding" /\ ev.ok /\ ~ev.last
    /\ start_providing_query_id = ev.id
    /\ ops = <<>>
    /\ Len(sent) = 1 /\ sent[1].text = "Kademlia adding provider record: {count}"

\* C3 (as amended): when a successful StartProviding step flagged last arrives
\* for the tracked start-providing id with key K, the start-providing id is
\* cleared; if the "Kademlia provider registered" message reaches the UI,
\* exactly one get-providers call is made, for K, and its id becomes the
\* tracked get-providers id.
C3_ProvidedLastGetsProviders ==
    [][(Handles("StartProviding") /\ ev'.ok /\ ev'.last)
         => /\ start_providing_query_id' = None
            /\ sent' # <<>> =>
                 /\ Len(ops') = 1
                 /\ ops'[1].op = "get_providers"
                 /\ ops'[1].key = ev'.key
                 /\ ops'[1].ret # None
                 /\ get_providers_query_id' = ops'[1].ret
            /\ sent' = <<>> =>
                 ops' = <<>> /\ pc' = "failed" /\ get_providers_query_id' = get_providers_query_id]_vars

\* C3 as stated: the final successful StartProviding step always issues exactly
\* one get-providers call for K and tracks its id.
C3_AsStated ==
    [][(Handles("StartProviding") /\ ev'.ok /\ ev'.last)
         => /\ start_providing_query_id' = None
            /\ Len(ops') = 1
            /\ ops'[1].op = "get_providers"
            /\ ops'[1].key = ev'.key
            /\ get_providers_query_id' = ops'[1].ret]_vars

C3_Witness ==
    /\ pc = "loop"
    /\ ev.type = "Kademlia" /\ ev.kind = "StartProviding" /\ ev.ok /\ ev.last
    /\ ev.key = UNIVERSAL_CONNECTIVITY_AGENT
    /\ start_providing_query_id = None
    /\ Len(ops) = 1 /\ ops[1].op = "get_providers" /\ ops[1].key = ev.key
    /\ get_providers_query_id = ops[1].ret

\* C4: a successful get-providers result for the tracked get-providers id that
\* carries n peers (either variant) issues exactly n get-closest-peers calls,
\* the i-th for the i-th listed peer, and every id they return is in the
\* fan-out set afterwards.
C4_FanOutOnePerPeer ==
    [][(Handles("GetProviders") /\ ev'.ok)
         => /\ Len(ops') = Len(ev'.providers)
            /\ \A i \in 1..Len(ops') :
                 /\ ops'[i].op = "get_closest_peers"
                 /\ ops'[i].peer = ev'.providers[i]
                 /\ ops'[i].ret # None
                 /\ ops'[i].ret \in get_closest_peers_query_id'
            /\ \A i, j \in 1..Len(ops') : i # j => ops'[i].ret # ops'[j].ret]_vars

C4_Witness ==
    /\ ev.type = "Kademlia" /\ ev.kind = "GetProviders" /\ ev.ok
    /\ ev.variant = "FinishedWithNoAdditionalRecord"
    /\ Len(ev.providers) = 2
    /\ Len(ops) = 2
    /\ {ops[1].ret, ops[2].ret} \subseteq get_closest_peers_query_id
    /\ Cardinality(get_closest_peers_query_id) = 2

\* every id the Peer tracks, of any kind
AllTracked ==
    ({bootstrap_query_id, start_providing_query_id, get_providers_query_id} \ {None})
        \cup get_closest_peers_query_id

QueryKinds == {"Bootstrap", "StartProviding", "GetProviders", "GetClosestPeers"}

\* the step leaves the four tracking fields as they were but for id, removed
RemovesOnly(id) ==
    /\ bootstrap_query_id' = IF bootstrap_query_id = id THEN None ELSE bootstrap_query_id
    /\ start_providing_query_id' =
         IF start_providing_query_id = id THEN None ELSE start_providing_query_id
    /\ get_providers_query_id' =
         IF get_providers_query_id = id THEN None ELSE get_providers_query_id
    /\ get_closest_peers_query_id' = get_closest_peers_query_id \ {id}

\* C5: once a later bootstrap has been issued, every completion event for an
\* identifier of the earlier workflow (start-providing, get-providers,
\* get-closest-peers) changes no tracked id, issues no DHT operation and sends
\* nothing to the UI.
C5_AsStated ==
    [][(/\ ev'.type = "Kademlia"
        /\ ev'.kind \in {"StartProviding", "GetProviders", "GetClosestPeers"}
        /\ \E b \in 1..Len(queries) : b > ev'.id /\ queries[b].kind = "Bootstrap")
         => /\ tracking' = tracking
            /\ ops' = <<>>
            /\ sent' = <<>>]_vars

\* C6: a successful get-providers step that is not flagged last issues no
\* get-closest-peers operation and leaves the get-providers id tracked.
C6_AsStated ==
    [][(Handles("GetProviders") /\ ev'.ok /\ ~ev'.last)
         => /\ OpsNamed(ops', "get_closest_peers") = {}
            /\ get_providers_query_id' = get_providers_query_id]_vars

\* C7: a tracked id leaves tracking only when its own step flagged last, or
\* its own failure, is processed, and an id that was removed is never tracked
\* again (an id that enters tracking is a newly issued one).
C7_AsStated ==
    [][/\ \A id \in AllTracked \ AllTracked' :
            /\ ev'.type = "Kademlia"
            /\ ev'.id = id
            /\ (ev'.last \/ ~ev'.ok)
       /\ \A id \in AllTracked' \ AllTracked : id > Len(queries)]_vars

\* C8 (as amended): when the event for a tracked id carries an error, no
\* Kademlia operation is issued and no other tracked id changes; if the error
\* Event reaches the UI, exactly that one Event is sent and exactly that id is
\* removed from tracking; if the send fails, nothing is sent and run() ends.
C8_ErrorDropsOnlyThatId ==
    [][((\E kind \in QueryKinds : Handles(kind)) /\ ~ev'.ok)
         => /\ ops' = <<>>
            /\ queries' = queries
            /\ pc' = "loop" =>
                 /\ Len(sent') = 1
                 /\ sent'[1].type = "Event"
                 /\ RemovesOnly(ev'.id)
                 /\ AllTracked' = AllTracked \ {ev'.id}
            /\ pc' # "loop" =>
                 /\ sent' = <<>>
                 /\ pc' = "failed"
                 /\ (RemovesOnly(ev'.id) \/ tracking' = tracking)]_vars

\* C8 as stated: the error event always removes the id and emits one Event.
C8_AsStated ==
    [][((\E kind \in QueryKinds : Handles(kind)) /\ ~ev'.ok)
         => /\ ops' = <<>>
            /\ Len(sent') = 1
            /\ sent'[1].type = "Event"
            /\ RemovesOnly(ev'.id)]_vars

C8_Witness ==
    /\ pc = "loop"
    /\ ev.type = "Kademlia" /\ ev.kind = "GetClosestPeers" /\ ~ev.ok
    /\ Len(sent) = 1 /\ sent[1].text = "Failed to get closest peers: {e}"
    /\ ev.id \notin get_closest_peers_query_id
    /\ Cardinality(get_closest_peers_query_id) = 1
    /\ ops = <<>>

\* C9: a start-providing operation is issued only in handling the successful
\* final step of the tracked bootstrap, a get-providers operation only in
\* handling the successful final step of the tracked start-providing, and a
\* get-closest-peers operation only in handling a successful get-providers
\* result that is the stage's final step (a stage that has not reached its
\* final step starts no later stage).
C9_AsStated ==
    [][/\ OpsNamed(ops', "start_providing") # {}
            => Handles("Bootstrap") /\ ev'.ok /\ ev'.last
       /\ OpsNamed(ops', "get_providers") # {}
            => Handles("StartProviding") /\ ev'.ok /\ ev'.last
       /\ OpsNamed(ops', "get_closest_peers") # {}
            => Handles("GetProviders") /\ ev'.ok /\ ev'.last]_vars

\* C10: a Bootstrap, StartProviding, GetProviders or GetClosestPeers event
\* whose id is not tracked for its kind leaves the four tracking fields
\* unchanged, issues no DHT operation, sends nothing to the UI, and run()
\* goes on.
C10_UnmatchedIgnored ==
    [][(/\ ev'.type = "Kademlia"
        /\ ev'.kind \in QueryKinds
        /\ ev'.id \notin Tracked(ev'.kind))
         => /\ tracking' = tracking
            /\ ops' = <<>>
            /\ sent' = <<>>
            /\ queries' = queries
            /\ pc' = pc]_vars

C10_Witness ==
    /\ pc = "loop"
    /\ ev.type = "Kademlia" /\ ev.kind = "Bootstrap" /\ ev.ok /\ ev.last
    /\ bootstrap_query_id # None /\ bootstrap_query_id # ev.id
    /\ ops = <<>>
    /\ sent = <<>>

\* C11: each periodic tick of the loop issues a Kademlia bootstrap and tracks
\* the id it returns as the bootstrap id.
C11_AsStated ==
    [][(ev'.type = "Tick" /\ kademlia)
         => /\ OpsNamed(ops', "bootstrap") # {}
            /\ \E i \in OpsNamed(ops', "bootstrap") :
                 ops'[i].ret # None => bootstrap_query_id' = ops'[i].ret]_vars

\* the steps in which run() handles an event, an intent or its startup
HandlerSteps == {"Startup", "Kademlia", "Gossipsub", "Identify", "UiIntent"}

\* C12: a send on to_ui that fails ends run() with an error. When the UI drops
\* its receiver during a handler, the handler's next send fails and run() ends;
\* with the receiver already dropped, a gossipsub message that is classified
\* and formatted ends run() at its first send, before anything is dialed or
\* requested, and so does an AllPeers intent or a published Chat intent; once
\* run() has ended, no event and no intent is handled and nothing changes.
C12_FailedSendEndsRun ==
    [][/\ (ev'.type \in HandlerSteps /\ ui_open /\ ~ui_open') => pc' = "failed"
       /\ (/\ ev'.type = "Gossipsub"
           /\ ~ui_open
           /\ try_from(ev').ok
           /\ Display(try_from(ev').val).ok)
            => (pc' = "failed" /\ sent' = <<>> /\ ops' = <<>>)
       /\ (/\ ev'.type = "UiIntent"
           /\ ~ui_open
           /\ \/ ev'.intent.type = "AllPeers"
              \/ ev'.intent.type = "Chat" /\ ops'[1].ok)
            => (pc' = "failed" /\ sent' = <<>>)
       /\ pc = "failed" => vars' = vars]_vars

\* a chat message whose Event reached the UI and whose Chat message did not
C12_Witness ==
    /\ pc = "failed"
    /\ ev.type = "Gossipsub"
    /\ ev.topic = GOSSIPSUB_CHAT_TOPIC
    /\ Len(sent) = 1
    /\ ~ui_open

\* the steps in which run() passes the try_recv at the top of an iteration
\* without taking an intent and then handles a branch of the select!
BranchSteps == {"Tick", "Kademlia", "Gossipsub", "Identify"}

\* C13: an iteration that finds the UI-to-Peer channel closed (the UI has
\* dropped its sender and nothing is queued) ends run() with an error.
C13_AsStated ==
    [][(ev'.type \in BranchSteps /\ ~ui_open /\ from_ui = <<>>)
         => pc' = "failed"]_vars

\* the dials and publishes among q that returned Err
FailedOps(q) == {i \in 1..Len(q) : q[i].op \in {"dial", "publish"} /\ ~q[i].ok}

\* C14: a step in which a dial or a chat publish fails, and in which the UI
\* keeps its receiver, leaves run() in its loop and leaves the tracked query
\* ids as they were (at startup: as the startup bootstrap sets them).
C14_FailedDialOrPublishGoesOn ==
    [][(FailedOps(ops') # {} /\ ui_open')
         => /\ pc' = "loop"
            /\ start_providing_query_id' = start_providing_query_id
            /\ get_providers_query_id' = get_providers_query_id
            /\ get_closest_peers_query_id' = get_closest_peers_query_id
            /\ IF ev'.type = "Startup"
               THEN bootstrap_query_id' \in
                      {None} \cup {ops'[i].ret : i \in OpsNamed(ops', "bootstrap")}
               ELSE bootstrap_query_id' = bootstrap_query_id]_vars

\* a chat intent whose publish failed, taken while a bootstrap is tracked
C14_Witness ==
    /\ ev.type = "UiIntent"
    /\ ev.intent.type = "Chat"
    /\ FailedOps(ops) = {1}
    /\ bootstrap_query_id # None
    /\ ui_open
    /\ pc = "loop"

\* the Kademlia operations among q that could not be issued
UnissuedOps(q) ==
    {i \in 1..Len(q) :
        q[i].op \in {"bootstrap", "start_providing", "get_providers", "get_closest_peers"}
        /\ q[i].ret = None}

\* C15: a step in which a dial, a chat publish or the issuing of a Kademlia
\* operation fails, and after which run() goes on, sends an Event to the UI.
C15_AsStated ==
    [][((FailedOps(ops') # {} \/ UnissuedOps(ops') # {}) /\ pc' = "loop")
         => \E j \in 1..Len(sent') : sent'[j].type = "Event"]_vars

\* C16: a peer-discovery message whose payload is a broken record is
\* classified as PeerDiscovery with no peer and no address: its Event says
\* so, and run() stays in its loop.
C16_AsStated ==
    [][(/\ ev'.type = "Gossipsub"
        /\ ev'.topic = GOSSIPSUB_PEER_DISCOVERY
        /\ ev'.data \in BrokenRecords
        /\ ui_open')
         => /\ pc' = "loop"
            /\ Len(sent') >= 1
            /\ sent'[1].body = [peer |-> NoPeer, multiaddrs |-> 0]]_vars

\* C17: a file-offer message whose data is not UTF-8 leaves run() in its
\* loop, and no file request is sent.
C17_AsStated ==
    [][(/\ ev'.type = "Gossipsub"
        /\ ev'.topic = GOSSIPSUB_CHAT_FILE_TOPIC
        /\ ~valid_utf8(ev'.data)
        /\ ui_open')
         => /\ pc' = "loop"
            /\ OpsNamed(ops', "send_request") = {}]_vars

\* C18: a message on an unknown topic whose data cannot be decoded field by
\* field still gives an Event, and run() stays in its loop.
C18_AsStated ==
    [][(/\ ev'.type = "Gossipsub"
        /\ ev'.topic \notin {GOSSIPSUB_CHAT_TOPIC, GOSSIPSUB_CHAT_FILE_TOPIC,
                             GOSSIPSUB_PEER_DISCOVERY}
        /\ ~decode_unknown_protobuf(ev'.data, 0, <<>>).ok
        /\ ui_open')
         => /\ pc' = "loop"
            /\ Len(sent') >= 1
            /\ sent'[1].type = "Event"]_vars

\* the variant the topic names
VariantOf(topic) ==
    CASE topic = GOSSIPSUB_CHAT_TOPIC -> "Chat"
      [] topic = GOSSIPSUB_CHAT_FILE_TOPIC -> "File"
      [] topic = GOSSIPSUB_PEER_DISCOVERY -> "PeerDiscovery"
      [] OTHER -> "Unknown"

\* C19: every gossipsub message is classified, and its variant is the one
\* its topic names.
C19_AsStated ==
    ev.type = "Gossipsub"
        => /\ try_from(ev).ok
           /\ try_from(ev).val.variant = VariantOf(ev.topic)

\* what a chat message makes the Peer send when every send succeeds
ChatSends(e) ==
    <<Display(try_from(e).val).val, Chat(e.source, e.data)>>
        \o (IF e.source # NoPeer THEN <<AddPeer(e.source)>> ELSE <<>>)

\* C20 (as amended): for a chat message the Peer sends the Event, then the
\* Chat message with the source and the bytes of the message, then, if and
\* only if the message has a source, the AddPeer for it; the UI gets all of
\* them while it keeps its receiver, and else the ones sent before it
\* dropped it, after which run() ends.
C20_ChatEventChatAddPeer ==
    [][(ev'.type = "Gossipsub" /\ ev'.topic = GOSSIPSUB_CHAT_TOPIC)
         => /\ Len(sent') <= Len(ChatSends(ev'))
            /\ sent' = SubSeq(ChatSends(ev'), 1, Len(sent'))
            /\ ui_open' => (sent' = ChatSends(ev') /\ pc' = "loop")
            /\ ~ui_open' => pc' = "failed"]_vars

\* C20: for a chat message the UI is sent the Event, the Chat message and,
\* if and only if the message has a source, the AddPeer.
C20_AsStated ==
    [][(ev'.type = "Gossipsub" /\ ev'.topic = GOSSIPSUB_CHAT_TOPIC)
         => sent' = ChatSends(ev')]_vars

\* a chat message with a source, whose three messages reached the UI
C20_Witness ==
    /\ ev.type = "Gossipsub"
    /\ ev.topic = GOSSIPSUB_CHAT_TOPIC
    /\ ev.source = "P1"
    /\ Len(sent) = 3
    /\ sent[3] = AddPeer("P1")
    /\ pc = "loop"

\* this step handles a file offer whose file id is valid UTF-8
FileOffer ==
    /\ ev'.type = "Gossipsub"
    /\ ev'.topic = GOSSIPSUB_CHAT_FILE_TOPIC
    /\ valid_utf8(ev'.data)

\* the one request the handler of the file offer e makes
FileRequest(e) == <<SwarmOp("send_request", "", e.source, e.data, TRUE)>>

\* C21 (as amended): for a file offer with a valid UTF-8 file id and a
\* source, the Peer makes exactly one file request, for that file id and to
\* the source, provided the UI took the Event that reports the offer; it
\* makes no request when the UI has dropped its receiver by then, and none
\* when the offer has no source.
C21_FileRequestAfterEvent ==
    [][FileOffer
         => ops' = IF ev'.source # NoPeer /\ Len(sent') >= 1
                   THEN FileRequest(ev') ELSE <<>>]_vars

\* C21: a file offer with a valid UTF-8 file id and a source is answered
\* with exactly one file request, and an offer without a source with none.
C21_AsStated ==
    [][FileOffer
         => ops' = IF ev'.source # NoPeer THEN FileRequest(ev') ELSE <<>>]_vars

\* a file offer from P1 was answered with the request to P1, and both
\* Events reached the UI
C21_Witness ==
    /\ ev.type = "Gossipsub"
    /\ ev.topic = GOSSIPSUB_CHAT_FILE_TOPIC
    /\ ev.source = "P1"
    /\ ops = <<SwarmOp("send_request", "", "P1", <<104, 105>>, TRUE)>>
    /\ Len(sent) = 2
    /\ pc = "loop"

\* this step handles a message of the discovery topic that decodes
Discovery ==
    /\ ev'.type = "Gossipsub"
    /\ ev'.topic = GOSSIPSUB_PEER_DISCOVERY
    /\ try_from(ev').ok

\* one dial for each validated address of the record of e, in the record's
\* order, failed or not
DiscoveryDials(e) ==
    LET addrs == try_from(e).val.discovered_addrs
    IN [i \in 1..Len(addrs) |->
          SwarmOp("dial", "", NoPeer, addrs[i], addrs[i] \notin e.failing)]

\* the AddPeer messages among the messages q
AddPeers(q) == SelectSeq(q, LAMBDA m : m.type = "AddPeer")

\* C22 (as amended): for a discovery message the Peer dials each validated
\* address of the record once, in the record's order and whether or not
\* the dials before it failed, provided the UI took the Event that reports
\* the message, and makes no dial otherwise; it sends the AddPeer for the
\* discovered peer if and only if the record's key gave a valid identity
\* and the UI took the two Events before it.
C22_DialsAfterEvent ==
    [][Discovery
         => LET peer == try_from(ev').val.discovered_peer
            IN /\ ops' = IF Len(sent') >= 1 THEN DiscoveryDials(ev') ELSE <<>>
               /\ AddPeers(sent') = IF peer # NoPeer /\ ui_open'
                                     THEN <<AddPeer(peer)>> ELSE <<>>
               /\ Len(AddPeers(sent')) = 1 => sent'[3] = AddPeer(peer)]_vars

\* C22: for a discovery message the Peer dials each validated address of
\* the record once, in order, and sends the AddPeer if and only if the
\* record's key gave a valid identity.
C22_AsStated ==
    [][Discovery
         => LET peer == try_from(ev').val.discovered_peer
            IN /\ ops' = DiscoveryDials(ev')
               /\ AddPeers(sent') = IF peer # NoPeer
                                     THEN <<AddPeer(peer)>> ELSE <<>>]_vars

\* the record of P2 with two addresses: the first dial failed, the second
\* was made all the same, and the AddPeer reached the UI
C22_Witness ==
    /\ ev.type = "Gossipsub"
    /\ ev.topic = GOSSIPSUB_PEER_DISCOVERY
    /\ ev.failing = {Ip4Addr}
    /\ ops = <<SwarmOp("dial", "", NoPeer, Ip4Addr, FALSE),
               SwarmOp("dial", "", NoPeer, TcpAddr, TRUE)>>
    /\ Len(sent) = 3
    /\ sent[3] = AddPeer("P2")

\* C23: when a connection to a peer is established, the Peer sends the UI
\* an AddPeer for that peer.
C23_AsStated ==
    [][ev'.type = "ConnectionEstablished"
         => \E i \in 1..Len(sent') : sent'[i] = AddPeer(ev'.peer)]_vars

\* C24 (as amended): when a connection to a peer closes and the UI takes
\* the RemovePeer for that peer, the Peer then evicts the peer from the
\* routing table if there is a DHT, and makes no DHT operation if there
\* is none; when the UI has dropped its receiver, run() ends at the send
\* and the peer is not evicted.
C24_RemovePeerThenEvict ==
    [][ev'.type = "ConnectionClosed"
         => IF ui_open'
            THEN /\ sent' = <<RemovePeer(ev'.peer)>>
                 /\ ops' = IF kademlia
                           THEN <<KadOp("remove_peer", "", ev'.peer, None)>>
                           ELSE <<>>
                 /\ pc' = "loop"
            ELSE /\ sent' = <<>>
                 /\ ops' = <<>>
                 /\ pc' = "failed"]_vars

\* C24: when a connection to a peer closes, the Peer sends the RemovePeer
\* and evicts the peer from the routing table if and only if there is a
\* DHT.
C24_AsStated ==
    [][ev'.type = "ConnectionClosed"
         => /\ sent' = <<RemovePeer(ev'.peer)>>
            /\ ops' = IF kademlia
                      THEN <<KadOp("remove_peer", "", ev'.peer, None)>>
                      ELSE <<>>]_vars

\* the connection to P1 closed with a DHT: RemovePeer sent, P1 evicted
C24_Witness ==
    /\ ev.type = "ConnectionClosed"
    /\ ev.peer = "P1"
    /\ kademlia
    /\ sent = <<RemovePeer("P1")>>
    /\ ops = <<KadOp("remove_peer", "", "P1", None)>>

\* the socket holds the frame that write_request or write_response made of
\* written.data, all of it
Whole ==
    /\ written.op \in {"write_request", "write_response"}
    /\ socket = write_length_prefixed(<<>>, written.data)

\* this step is a read of the substream
Reads == result = NoRead /\ result'.op # "none"

\* this step is a read by the function that goes with the writer's
ReadsBack ==
    /\ Reads
    /\ result'.op = IF written.op = "write_request" THEN "read_request" ELSE "read_response"

\* the size limit of a read function
LimitOf(op) == IF op = "read_request" THEN max_request_size ELSE max_response_size

\* C25: a payload of a length within the limit, 0 included, written with
\* write_request (write_response) and read with read_request
\* (read_response), is returned as it was written.
C25_AsStated ==
    [][(ReadsBack /\ Whole /\ bytes_len(written.data) <= LimitOf(result'.op))
         => (result'.kind = "Ok" /\ result'.val = written.data)]_vars

\* C26: a read of a frame whose length is above the limit of the read
\* function fails with the size error and leaves every payload byte in the
\* socket; a frame of exactly the limit passes the size check and is
\* returned by the read function that goes with its writer.
C26_SizeCheckedAfterPrefix ==
    [][(Reads /\ Whole)
         => LET len == bytes_len(written.data)
                max_size == LimitOf(result'.op)
            IN /\ len > max_size
                    => /\ result'.kind = "InvalidData"
                       /\ result'.why = "Received data size exceeds maximum"
                       /\ socket' = written.data
               /\ len <= max_size
                    => result'.why # "Received data size exceeds maximum"
               /\ (len = max_size /\ ReadsBack)
                    => (result'.kind = "Ok" /\ result'.val = written.data)]_vars

\* a request of 1,000,001 bytes was refused by read_request, its payload
\* still unread
C26_Witness ==
    /\ written.op = "write_request"
    /\ bytes_len(written.data) = max_request_size + 1
    /\ result.op = "read_request"
    /\ result.kind = "InvalidData"
    /\ socket = written.data

\* C27: a read of a substream that ended before any byte of it arrived
\* returns an empty result, not an error.
C27_AsStated ==
    [][(Reads /\ socket = <<>> /\ closed)
         => (result'.kind = "Ok" /\ result'.val = <<>>)]_vars

\* the substream ended with a part of the frame written, neither nothing
\* nor all of it
Broken ==
    /\ written.op \in {"write_request", "write_response"}
    /\ closed
    /\ written.arrived > 0
    /\ written.arrived < bytes_len(write_length_prefixed(<<>>, written.data))
    /\ socket = bytes_take(write_length_prefixed(<<>>, written.data), written.arrived)

\* C28 (as amended): when the substream ends within the length prefix, or
\* behind the prefix of a length within the limit and before the last byte
\* of the payload, the read fails with UnexpectedEof; when it ends behind
\* the prefix of a length above the limit, the read fails with the size
\* error; no part of a payload is returned.
C28_EndWithinFrame ==
    [][(Reads /\ Broken)
         => LET len == bytes_len(written.data)
            IN IF written.arrived >= Len(encode_usize(len)) /\ len > LimitOf(result'.op)
               THEN /\ result'.kind = "InvalidData"
                    /\ result'.why = "Received data size exceeds maximum"
               ELSE result'.kind = "UnexpectedEof"]_vars

\* C28: when the substream ends within the length prefix, or behind it and
\* before the last byte of the payload, the read fails with UnexpectedEof.
C28_AsStated ==
    [][(Reads /\ Broken) => result'.kind = "UnexpectedEof"]_vars

\* a request of 16383 bytes whose last byte did not arrive: UnexpectedEof
C28_Witness ==
    /\ written.op = "write_request"
    /\ bytes_len(written.data) = 16383
    /\ written.arrived = 16384
    /\ closed
    /\ result.op = "read_request"
    /\ result.kind = "UnexpectedEof"

\* C29: decoding a well-formed discovery record (one published as
\* write_message writes it) keeps the addresses that are multiaddrs, in
\* their order, and drops the others without failing; the discovered peer
\* is there if and only if the key bytes are a valid key, whatever the
\* addresses are.
C29_KeepsValidAddrs ==
    [][(~decoded.done /\ decoded'.done /\ payload.unknown = <<>>)
         => /\ decoded'.ok
            /\ decoded'.val.variant = "PeerDiscovery"
            /\ decoded'.val.discovered_addrs
                 = SelectSeq(record.multiAddrs, LAMBDA a : a \in {Ip4Addr, TcpAddr})
            /\ decoded'.val.discovered_peer
                 = IF \E k \in DOMAIN KeyMaterial : record.publicKey = encode_protobuf(k)
                   THEN KeyMaterial[record.publicKey[5]] ELSE NoPeer]_vars

\* a record with an invalid key, two multiaddrs and between them bytes
\* that are none: no peer, the two addresses
C29_Witness ==
    /\ decoded.done /\ decoded.ok
    /\ payload.unknown = <<>>
    /\ record = DiscoveredPeer(<<9>>, <<Ip4Addr, NoAddr, TcpAddr>>)
    /\ decoded.val.discovered_peer = NoPeer
    /\ decoded.val.discovered_addrs = <<Ip4Addr, TcpAddr>>

\* this step decodes a record of a valid key and of multiaddrs only
DecodesValid ==
    /\ ~decoded.done /\ decoded'.done
    /\ peer_of_public_key(record.publicKey) # NoPeer
    /\ \A i \in 1..Len(record.multiAddrs) : valid_multiaddr(record.multiAddrs[i])

\* the decoded message has the addresses and the identity of the record
SameRecord(m) ==
    /\ m.ok
    /\ m.val.discovered_addrs = record.multiAddrs
    /\ m.val.discovered_peer = peer_of_public_key(record.publicKey)

\* C30 (as amended): a record of a valid key and of 0 to 5 multiaddrs,
\* encoded and decoded, gives the same addresses in the same order and the
\* same identity, also with an unknown field of the wire type varint,
\* 64-bit, length-delimited or 32-bit among its fields; with an unknown
\* field of a group wire type the decoding fails.
C30_RoundTrip ==
    [][DecodesValid
         => IF payload.unknown = <<>> \/ payload.unknown[1] % 8 \in {0, 1, 2, 5}
            THEN SameRecord(decoded')
            ELSE ~decoded'.ok]_vars

\* C30: a record of a valid key and of 0 to 5 multiaddrs, encoded and
\* decoded, gives the same addresses in the same order and the same
\* identity, whatever unknown field is among its fields.
C30_AsStated ==
    [][DecodesValid => SameRecord(decoded')]_vars

\* the record of P2 with five addresses came back with a length-delimited
\* unknown field skipped
C30_Witness ==
    /\ decoded.done
    /\ payload.unknown = <<26, 1, 65>>
    /\ record = DiscoveredPeer(encode_protobuf(2),
                               <<Ip4Addr, TcpAddr, TcpAddr, Ip4Addr, TcpAddr>>)
    /\ SameRecord(decoded)
    /\ decoded.val.discovered_peer = "P2"

\* C38: a successful get-providers result (either variant) for the tracked
\* get-providers id leaves that id untracked, whether or not the report reaches
\* the UI; the tracked get-providers id only ever becomes the id of a query
\* issued in the same step; and a provider result for an id that is not the
\* tracked one issues no get-closest-peers operation and changes no tracked id.
\* So the fan-out of one get-providers query happens at most once.
C38_FanOutAtMostOnce ==
    [][/\ (Handles("GetProviders") /\ ev'.ok) => get_providers_query_id' = None
       /\ (get_providers_query_id' \notin {None, get_providers_query_id})
            => get_providers_query_id' > Len(queries)
       /\ (/\ ev'.type = "Kademlia" /\ ev'.kind = "GetProviders"
           /\ ev'.id \notin Tracked("GetProviders"))
            => /\ OpsNamed(ops', "get_closest_peers") = {}
               /\ ops' = <<>>
               /\ tracking' = tracking]_vars

\* a second successful provider result of the query that was fanned out
\* before, with two providers, while the ids of that fan-out are tracked
C38_Witness ==
    /\ ev.type = "Kademlia" /\ ev.kind = "GetProviders" /\ ev.ok
    /\ Len(ev.providers) = 2
    /\ queries[ev.id].kind = "GetProviders"
    /\ get_providers_query_id = None
    /\ get_closest_peers_query_id # {}
    /\ \A c \in get_closest_peers_query_id : c > ev.id
    /\ ops = <<>>
    /\ sent = <<>>

\* C39: in every reachable state at most one of the bootstrap, start-providing
\* and get-providers ids is tracked, and the get-closest-peers set leaves the
\* empty set only in a step that handles a successful get-providers result for
\* the tracked get-providers id.
C39_OneStageTracked ==
    /\ [](Cardinality({k \in {"Bootstrap", "StartProviding", "GetProviders"} :
                         Tracked(k) # {}}) <= 1)
    /\ [][(get_closest_peers_query_id = {} /\ get_closest_peers_query_id' # {})
            => (Handles("GetProviders") /\ ev'.ok)]_vars

\* the get-providers id is the one tracked, after the start-providing id gave
\* way to it
C39_Witness ==
    /\ ev.type = "Kademlia" /\ ev.kind = "StartProviding" /\ ev.ok /\ ev.last
    /\ get_providers_query_id # None
    /\ start_providing_query_id = None
    /\ bootstrap_query_id = None
    /\ get_closest_peers_query_id = {}

\* this step is the top of an iteration taking an intent of the given kinds
Drains(kinds) == ev'.type = "UiIntent" /\ ev'.intent.type \in kinds

\* C31: a step shortens the queue of intents by at most its head, only at the
\* top of an iteration that has not taken an intent yet, and the iteration is
\* then marked as having taken one until a branch of the select! is done; and
\* whenever run() is in the loop with no intent pending, the tick branch of
\* the select! can be taken at once.
C31_OneIntentNoWait ==
    /\ [][(Len(from_ui') < Len(from_ui))
            => /\ from_ui' = Tail(from_ui)
               /\ ~drained /\ drained'
               /\ ev'.type = "UiIntent"]_vars
    /\ []((pc = "loop" /\ from_ui = <<>>) => ENABLED Tick)

\* one intent was taken and handled, the second one is left for the next
\* iteration
C31_Witness ==
    /\ ev.type = "UiIntent"
    /\ pc = "loop"
    /\ drained
    /\ Len(from_ui) = 1

\* C32 (as amended): an AllPeers intent makes one attempt to send an AllPeers
\* message: if the receiver is open when it is sent exactly that message goes
\* to the UI, if it was dropped nothing is sent and run() ends with the error; either
\* way no tracked id changes and no operation is issued on the swarm.
C32_AllPeersReadOnly ==
    [][Drains({"AllPeers"})
         => /\ tracking' = tracking
            /\ queries' = queries
            /\ ops' = <<>>
            /\ IF ui_open'
               THEN /\ Len(sent') = 1 /\ sent'[1].type = "AllPeers"
                    /\ pc' = "loop"
               ELSE /\ sent' = <<>>
                    /\ pc' = "failed"]_vars

\* C32 as stated: every AllPeers intent produces exactly one AllPeers message
C32_AsStated ==
    [][Drains({"AllPeers"})
         => /\ Len(sent') = 1 /\ sent'[1].type = "AllPeers"
            /\ tracking' = tracking
            /\ ops' = <<>>]_vars

\* an AllPeers intent answered with a list of two peers
C32_Witness ==
    /\ ev.type = "UiIntent" /\ ev.intent.type = "AllPeers"
    /\ Len(sent) = 1 /\ sent[1].type = "AllPeers" /\ Len(sent[1].peers) = 2
    /\ ops = <<>>
    /\ pc = "loop"

\* C33: a Chat intent taken from the channel issues exactly one operation, a
\* publish on the chat topic of the intent's bytes, whether or not the publish
\* succeeds; an intent that is neither Chat nor AllPeers issues nothing,
\* sends nothing to the UI and leaves run() in the loop.
C33_ChatPublishedOnce ==
    [][/\ Drains({"Chat"})
            => /\ Len(ops') = 1
               /\ ops'[1].op = "publish"
               /\ ops'[1].topic = GOSSIPSUB_CHAT_TOPIC
               /\ ops'[1].data = ev'.intent.data
       /\ (ev'.type = "UiIntent" /\ ev'.intent.type \notin {"Chat", "AllPeers"})
            => /\ ops' = <<>>
               /\ sent' = <<>>
               /\ tracking' = tracking
               /\ pc' = "loop"]_vars

\* a two-byte chat intent whose publish failed, leaving one operation and no
\* message
C33_Witness ==
    /\ ev.type = "UiIntent" /\ ev.intent.type = "Chat"
    /\ ev.intent.data = <<104, 105>>
    /\ Len(ops) = 1 /\ ops[1].op = "publish" /\ ~ops[1].ok
    /\ ops[1].data = <<104, 105>>
    /\ sent = <<>>
    /\ pc = "loop"

\* C40 (as amended): a Subscribed (Unsubscribed) event on the chat topic makes
\* one attempt to send AddPeer (RemovePeer) for the peer: if the receiver is
\* open when it is sent exactly that message goes to the UI, if it was dropped
\* nothing is sent and run() ends with the error; an event on any other topic
\* sends nothing and leaves run() in the loop. Neither issues an operation or
\* changes a tracked id.
C40_ChatTopicOnly ==
    [][(ev'.type \in {"Subscribed", "Unsubscribed"})
         => /\ ops' = <<>>
            /\ tracking' = tracking
            /\ IF ev'.topic # GOSSIPSUB_CHAT_TOPIC
               THEN sent' = <<>> /\ pc' = "loop"
               ELSE IF ui_open'
               THEN /\ sent' = <<IF ev'.type = "Subscribed"
                                 THEN AddPeer(ev'.peer) ELSE RemovePeer(ev'.peer)>>
                    /\ pc' = "loop"
               ELSE sent' = <<>> /\ pc' = "failed"]_vars

\* C40 as stated: the message is emitted if and only if the topic is the chat
\* topic
C40_AsStated ==
    [][(ev'.type \in {"Subscribed", "Unsubscribed"})
         => sent' = IF ev'.topic = GOSSIPSUB_CHAT_TOPIC
                    THEN <<IF ev'.type = "Subscribed"
                           THEN AddPeer(ev'.peer) ELSE RemovePeer(ev'.peer)>>
                    ELSE <<>>]_vars

\* P2 left the chat topic and the UI was told to remove it
C40_Witness ==
    /\ ev.type = "Unsubscribed"
    /\ ev.topic = GOSSIPSUB_CHAT_TOPIC
    /\ ev.peer = "P2"
    /\ sent = <<RemovePeer("P2")>>
    /\ pc = "loop"

\* the Peer waits in to_ui.send(..).await on a full queue
PeerBlocked == pc = "send" /\ ui_open /\ Len(to_ui) = MaxQueued

\* the UI waits in to_peer.send(..).await on a full queue
UiBlocked == ui_open /\ typed # <<>> /\ pc \in {"loop", "send"} /\ Len(from_ui) = MaxPending

\* C35: the Peer is never blocked sending on a full Peer-to-UI queue while
\* the UI is blocked sending an intent on a full UI-to-Peer queue.
C35_AsStated == ~(PeerBlocked /\ UiBlocked)

\* C34: the step that takes the shutdown branch issues exactly three
\* operations, an unsubscribe for the chat, the file and the discovery topic
\* in this order, whichever of them fail, sends nothing, takes no intent and
\* leaves run() returned with success; once run() has returned, no intent is
\* taken, nothing is put on the Peer-to-UI queue and nothing is issued.
C34_ShutdownLeavesLoop ==
    /\ [][(ev'.type = "Shutdown" /\ pc = "loop")
            => /\ Len(ops') = 3
               /\ <<ops'[1].topic, ops'[2].topic, ops'[3].topic>> =
                    <<GOSSIPSUB_CHAT_TOPIC, GOSSIPSUB_CHAT_FILE_TOPIC,
                      GOSSIPSUB_PEER_DISCOVERY>>
               /\ \A i \in 1..3 : ops'[i].op = "unsubscribe"
               /\ pc' = "done"
               /\ sent' = <<>>
               /\ outgoing' = <<>>
               /\ to_ui' = to_ui
               /\ from_ui' = from_ui
               /\ tracking' = tracking]_vars
    /\ [][(pc = "done")
            => /\ pc' = "done"
               /\ from_ui' = from_ui
               /\ to_ui' = to_ui
               /\ outgoing' = <<>>
               /\ ops' = <<>>]_vars

\* run() returned with success from the shutdown branch although the
\* unsubscribe from the chat topic failed, an intent left in the queue
C34_Witness ==
    /\ pc = "done"
    /\ ev.type = "Shutdown"
    /\ Len(ops) = 3
    /\ ~ops[1].ok /\ ops[2].ok /\ ops[3].ok
    /\ from_ui # <<>>

\* the UI is in its loop, at from_peer.try_recv()
UiConsumes == ui_open /\ typed = <<>>

\* run() has returned or panicked
Terminated == pc \notin {"loop", "send"}

\* C36: in every fair behaviour in which the UI is again and again at the
\* try_recv of its loop, either run() terminates, or the queue of intents is
\* empty again and again, or intents are taken from it again and again:
\* every intent in the queue is taken, with or without network events.
C36_IntentsDrained ==
    ([]<>UiConsumes) => (([]<>(from_ui = <<>> \/ Terminated)) \/ []<><<TryRecv>>_vars)

\* an intent is pending while the Peer is blocked on the full queue to the
\* UI, and the UI is about to take a message from it
C36_Witness ==
    /\ PeerBlocked
    /\ from_ui # <<>>
    /\ UiConsumes
    /\ ~drained

\* C37: in every fair behaviour, once the token is cancelled run() returns.
C37_CancelledTerminates == cancelled ~> Terminated

\* the token was cancelled while the Peer was blocked on the full queue: the
\* UI took one message in its last pass, and the send returned the error
\* that ends run()
C37_Witness ==
    /\ cancelled
    /\ pc = "failed"
    /\ ev.type = "ToUiSendErr"
    /\ Len(to_ui) = MaxQueued - 1

====
